---- MODULE Spec2Model ----
(***************************************************************************)
(* Model of the ZeroTrust-Track event pipeline: conntrack ingester ->      *)
(* Parser::parse -> Filter::apply -> State::transform -> serializer ->     *)
(* per-sink queues.  Option<T> values are modelled as sequences of length  *)
(* at most one: None is <<>> and Some(x) is <<x>>.                         *)
(***************************************************************************)
EXTENDS Integers, Sequences, FiniteSets, TLC

\* ------------------------------------------------------------------ bounds
NumHashes == 2        \* distinct fingerprints used by directly built payloads
NumUuids == 2         \* distinct values Uuid::new_v4() may return
MaxEvents == 3        \* kernel messages the ingester receives in one run
NumSinks == 2         \* configured outputs
MaxRuns == 2          \* calls of populate_config on one data directory
MaxRows == 2          \* rows of a socket table beside its header
MaxCalls == 3         \* messages handed to one tracking-server output
MaxPosts == 4         \* HTTP requests made on behalf of that output

\* ------------------------------------------------------- program constants
DNS_PORT == 53
MDNS_PORT == 5353
\* <u32>::max_value(), the "no row" sentinel of parse_ip_connection; the
\* largest integer the model checker holds stands for 4294967295
U32_MAX == 2147483647
\* number of values a fingerprint can take: 2^64 in the build, 2^20 here (the
\* hasher below keeps the order and the bytes fed, not SipHash's mixing)
HashSpace == 1048576

None == <<>>
Some(x) == <<x>>
IsNone(o) == o = <<>>
IsSome(o) == o # <<>>
Unwrap(o) == o[1]

Localhost == <<127, 0, 0, 1>>
States == {"New", "Destroy", "Unknown"}

\* ------------------------------------------------------------ fingerprint
\* impl Display for Protocol
ProtocolToString(protocol) == IF protocol = "UDP" THEN "UDP" ELSE "TCP"

\* bytes a &str feeds to the hasher: its UTF-8 bytes, then 0xff
StrBytes(s) ==
    IF s = "TCP" THEN <<84, 67, 80, 255>> ELSE <<85, 68, 80, 255>>

\* bytes a u16 feeds to the hasher (native, little endian)
PortBytes(port) == <<port % 256, port \div 256>>

RECURSIVE HasherWrite(_, _)
HasherWrite(s, bytes) ==
    IF bytes = <<>> THEN s
    ELSE HasherWrite((s * 33 + Head(bytes) + 1) % HashSpace, Tail(bytes))

\* generate_hash(...): the five fields are fed in order into one hasher
generate_hash(protocol, source, source_port, destination, destination_port) ==
    HasherWrite(HasherWrite(HasherWrite(HasherWrite(HasherWrite(5381,
        StrBytes(protocol)), source), PortBytes(source_port)),
        destination), PortBytes(destination_port))

\* `as i64`: reinterpretation of the unsigned value as a signed one
AsSigned(h) == IF h >= HashSpace \div 2 THEN h - HashSpace ELSE h

\* ---------------------------------------------------------------- payloads
Uuids == 1..NumUuids
WireUuid(n) == 10 + n \* the n-th value Uuid::new_v4() returns in the main loop
AgentUuid == 0
OwnPid == 100
OtherPid == 200
Pids == {OwnPid, OtherPid}

Program(inode, pid) ==
    [inode |-> inode, pid |-> pid, process_name |-> "comm",
     command_line |-> <<"comm">>]

OpenConnection(hash, uuid, protocol, source, destination, source_port, destination_port, username, uid, program_details) ==
    [kind |-> "Open", hash |-> hash, uuid |-> uuid, agent |-> AgentUuid,
     timestamp |-> "t", protocol |-> protocol, source |-> source,
     destination |-> destination, source_port |-> source_port,
     destination_port |-> destination_port, username |-> username,
     uid |-> uid, program_details |-> program_details]

CloseConnection(hash, uuid, protocol, source, destination, source_port, destination_port) ==
    [kind |-> "Close", hash |-> hash, uuid |-> uuid, agent |-> AgentUuid,
     timestamp |-> "t", protocol |-> protocol, source |-> source,
     destination |-> destination, source_port |-> source_port,
     destination_port |-> destination_port]

\* hashes of the payloads that are built directly (as the unit tests do)
TestHash(i) ==
    AsSigned(generate_hash(ProtocolToString("TCP"), Localhost, 21 + i,
                           Localhost, 21 + i))
TestHashes == {TestHash(i) : i \in 1..NumHashes}

\* default_close_payload(), for each fingerprint
default_close_payload(hash) ==
    CloseConnection(hash, None, "TCP", Localhost, Localhost, 22, 22)

\* default_open_payload(source_port, destination_port, program_details)
default_open_payload(hash, uuid, source_port, destination_port, program_details) ==
    OpenConnection(hash, uuid, "TCP", Localhost, Localhost, source_port,
                   destination_port, "hello", 10, program_details)

\* (source_port, destination_port) of the payloads built directly
TestPorts == {<<0, 0>>, <<DNS_PORT, DNS_PORT>>, <<0, MDNS_PORT>>}
TestPrograms == {None} \cup {Some(Program(0, pid)) : pid \in Pids}

FilterPayloads ==
    {default_open_payload(h, 1, ports[1], ports[2], prog) :
        h \in TestHashes, ports \in TestPorts, prog \in TestPrograms}
    \cup {default_close_payload(h) : h \in TestHashes}

StatePayloads ==
    {default_open_payload(h, u, 22, 22, None) : h \in TestHashes, u \in Uuids}
    \cup {default_close_payload(h) : h \in TestHashes}

FiltersConfigs ==
    [non_process_connections : BOOLEAN, dns_requests : BOOLEAN,
     notrust_track_connections : BOOLEAN]


\* ------------------------------------------------------------------ state
VARIABLES
    config,        \* Filter.config : FiltersConfig
    filtered,      \* Filter.filtered : HashSet<i64>
    connections,   \* State.connections : HashMap<i64, Uuid> (set of pairs)
    lastApply,     \* history: the most recent Filter::apply call
    pending,       \* history: hashes with a dropped Open and no Close since
    passedEver,    \* history: hashes with an Open the filter let through
    closedDrop,    \* history: hashes whose latest payload was a dropped Close
    preDrop,       \* history: per pending hash, the size of the set before
                   \* the first Open dropped since the last Close of that hash
    lastTransform, \* history: the most recent State::transform call
    openUuids,     \* history: per hash, uuids of all Opens transformed
    awaiting,      \* history: per hash, uuid of the Open not yet closed
    rx,            \* channel ingester -> main loop (conn_track::Connection)
    received,      \* number of kernel messages the ingester has decoded
    pc,            \* position of the main loop of NoTrack::run
    cur,           \* the Connection being parsed
    inode,         \* local `inode` of parse_ip_connection
    uid,           \* local `uid` of parse_ip_connection
    username,      \* local `username` of parse_ip_connection
    outq,          \* per output: the channel to its worker thread
    uuidsDrawn,    \* number of Uuid::new_v4() calls made by the parser
    lastEvent,     \* history: the most recent loop iteration that finished
    offered,       \* history: every message the main loop has sent, in order
    calls,         \* history: every process_open_connection and
                   \* process_close_connection call of the main loop, in order
    handled,       \* per output: the messages its worker thread has taken
                   \* from its channel and handed to its write or post call
    lost,          \* per output: those of them whose write or post failed
    workerUp,      \* per output: its worker thread (and its Receiver) lives
    env,           \* what the machine shows to one start of the binary
    boot,          \* position and locals of main / from_file / new / run
    ingester,      \* the thread that runs Conntrack::start: not spawned,
                   \* in its loop, or ended by the panic of a failed recv
    backlog,       \* history: the channel's content when the ingester ended
    idConfig,      \* Config.name and Config.uuid handed to populate_config
    tupleFile,     \* <directory>/name_tuple.yaml: None, or its lines
    namesFile,     \* <directory>/names.txt: None, or its lines
    idRuns,        \* history: one record per populate_config call
    v4Drawn,       \* number of Uuid::new_v4() calls made by populate_config
    procRow,       \* a socket of the kernel's table
    procLine,      \* the row of /proc/net/tcp the kernel prints for it
    procParsed,    \* what parse_connection returned for it
    netFile,       \* per protocol: /proc/net/<protocol> as the kernel
                   \* prints it now (its lines), None when it cannot be opened
    chomperMap,    \* per protocol: ProcChomper.map
    lastUpdate,    \* history: the most recent ProcChomper::update call
    lastPass,      \* history: the most recent pass of the retry loop
    srvPc,         \* Server::new: not yet called, failed, the Server it
                   \* returned lives, or that Server was dropped
    srvTimer,      \* Server.interface_update_guard: None, or the URL the
                   \* repeating report posts to
    srvWorker,     \* the thread spawned by Server::new
    srvq,          \* the channel Server.tx -> that thread (MessageType)
    srvSent,       \* history: every message handed to the Server
    posts          \* history: every HTTP POST of outputs/server.rs

filterVars == <<config, filtered, lastApply, pending, passedEver,
                closedDrop, preDrop>>
stateVars == <<connections, lastTransform, openUuids, awaiting>>
runVars == <<rx, received, pc, cur, inode, uid, username, outq, uuidsDrawn,
             lastEvent, offered, calls>>
sinkVars == <<handled, lost, workerUp>>
bootVars == <<env, boot, ingester, backlog>>
idVars == <<idConfig, tupleFile, namesFile, idRuns, v4Drawn>>
procVars == <<procRow, procLine, procParsed>>
chomperVars == <<netFile, chomperMap, lastUpdate, lastPass>>
srvVars == <<srvPc, srvTimer, srvWorker, srvq, srvSent, posts>>
sideVars == <<bootVars, idVars, procVars, chomperVars, srvVars>>
vars == <<filterVars, stateVars, runVars, sinkVars, sideVars>>

\* ----------------------------------------------------------- Filter::apply
\* variant: the multicast DNS port forgotten
IsDnsPort_Only53(port) == port = DNS_PORT

IsDnsPort(port) == port = DNS_PORT \/ port = MDNS_PORT

\* variant: is_some() in place of is_none()
MatchesNonProcess_Inverted(cfg, connection) ==
    cfg.non_process_connections /\ IsSome(connection.program_details)

\* filters/mod.rs:48
MatchesNonProcess(cfg, connection) ==
    cfg.non_process_connections /\ IsNone(connection.program_details)

\* variant: the option is not consulted
MatchesSelf_NoConfig(cfg, ownPid, connection) ==
    /\ IsSome(connection.program_details)
    /\ Unwrap(connection.program_details).pid = ownPid

\* filters/mod.rs:54-56
MatchesSelf(cfg, ownPid, connection) ==
    /\ cfg.notrust_track_connections
    /\ IsSome(connection.program_details)
    /\ Unwrap(connection.program_details).pid = ownPid

\* filters/mod.rs:64-65
MatchesDns(cfg, connection) ==
    cfg.dns_requests /\ IsDnsPort(connection.destination_port)

\* variant: the hash is remembered for every Open, dropped or not
ApplyOpen_InsertAlways(cfg, ownPid, set, connection) ==
    [ret |-> \/ MatchesNonProcess(cfg, connection)
             \/ MatchesSelf(cfg, ownPid, connection)
             \/ MatchesDns(cfg, connection),
     filtered |-> set \cup {connection.hash}]

\* variant: an Open that is let through clears its hash from the set
ApplyOpen_ForgetOnPass(cfg, ownPid, set, connection) ==
    IF \/ MatchesNonProcess(cfg, connection)
       \/ MatchesSelf(cfg, ownPid, connection)
       \/ MatchesDns(cfg, connection)
    THEN [ret |-> TRUE, filtered |-> set \cup {connection.hash}]
    ELSE [ret |-> FALSE, filtered |-> set \ {connection.hash}]

\* the Payload::Open arm
ApplyOpen(cfg, ownPid, set, connection) ==
    IF MatchesNonProcess(cfg, connection)
    THEN [ret |-> TRUE, filtered |-> set \cup {connection.hash}]
    ELSE IF MatchesSelf(cfg, ownPid, connection)
    THEN [ret |-> TRUE, filtered |-> set \cup {connection.hash}]
    ELSE IF MatchesDns(cfg, connection)
    THEN [ret |-> TRUE, filtered |-> set \cup {connection.hash}]
    ELSE [ret |-> FALSE, filtered |-> set]

\* variant: the hash stays in the set when its Close is dropped
ApplyClose_NoRemove(set, connection) ==
    [ret |-> connection.hash \in set, filtered |-> set]

\* variant: the hash is forgotten but the Close is let through
ApplyClose_NeverDrop(set, connection) ==
    [ret |-> FALSE, filtered |-> set \ {connection.hash}]

\* variant: every Close is dropped
ApplyClose_DropAll(set, connection) ==
    [ret |-> TRUE, filtered |-> set \ {connection.hash}]

\* the Payload::Close arm
ApplyClose(set, connection) ==
    IF connection.hash \in set
    THEN [ret |-> TRUE, filtered |-> set \ {connection.hash}]
    ELSE [ret |-> FALSE, filtered |-> set]

\* Filter::apply: the returned bool and the set it leaves behind
FilterApply(cfg, ownPid, set, payload) ==
    IF payload.kind = "Open"
    THEN ApplyOpen(cfg, ownPid, set, payload)
    ELSE ApplyClose(set, payload)

\* what the call observably did, recorded for the properties below
ApplyRecord(payload, r) ==
    [payload |-> payload, ret |-> r.ret, pre |-> filtered,
     wasPending |-> payload.hash \in pending,
     hadPassed |-> payload.hash \in passedEver,
     afterClosedDrop |-> payload.hash \in closedDrop,
     preDrop |-> preDrop[payload.hash]]

\* one call filter.apply(&payload) on the filter object
DoApply(payload) ==
    LET r == FilterApply(config, OwnPid, filtered, payload)
        h == payload.hash
    IN  /\ filtered' = r.filtered
        /\ lastApply' = Some(ApplyRecord(payload, r))
        /\ pending' = IF payload.kind = "Open"
                      THEN (IF r.ret THEN pending \cup {h} ELSE pending)
                      ELSE pending \ {h}
        /\ passedEver' = IF payload.kind = "Open" /\ ~r.ret
                         THEN passedEver \cup {h} ELSE passedEver
        /\ closedDrop' = IF payload.kind = "Close" /\ r.ret
                         THEN closedDrop \cup {h} ELSE closedDrop \ {h}
        /\ preDrop' = IF payload.kind = "Open"
                      THEN (IF r.ret /\ h \notin pending
                            THEN [preDrop EXCEPT ![h] =
                                         Some(Cardinality(filtered))]
                            ELSE preDrop)
                      ELSE [preDrop EXCEPT ![h] = None]
        /\ UNCHANGED config

ApplyCall(payload) ==
    /\ DoApply(payload)
    /\ UNCHANGED <<stateVars, runVars, sinkVars, sideVars>>


\* --------------------------------------------------------- State::transform
MapInsert(map, key, value) ==
    [k \in DOMAIN map \cup {key} |-> IF k = key THEN value ELSE map[k]]

MapRemove(map, key) == [k \in DOMAIN map \ {key} |-> map[k]]

MapGet(map, key) == IF key \in DOMAIN map THEN Some(map[key]) ELSE None

\* variant: entry().or_insert() in place of insert()
TransformOpen_KeepFirst(map, connection) ==
    [payload |-> connection,
     connections |-> IF connection.hash \in DOMAIN map THEN map
                     ELSE [k \in DOMAIN map \cup {connection.hash} |->
                             IF k = connection.hash THEN connection.uuid
                             ELSE map[k]]]

\* the Payload::Open arm
TransformOpen(map, connection) ==
    [payload |-> connection,
     connections |-> MapInsert(map, connection.hash, connection.uuid)]

\* variant: the Close is stamped anew when its uuid is filled in
TransformClose_Restamped(map, connection) ==
    IF connection.hash \in DOMAIN map
    THEN [payload |-> [connection EXCEPT !.uuid = <<map[connection.hash]>>,
                                         !.timestamp = "later"],
          connections |-> MapRemove(map, connection.hash)]
    ELSE [payload |-> connection, connections |-> map]

\* variant: get() in place of remove()
TransformClose_Get(map, connection) ==
    IF connection.hash \in DOMAIN map
    THEN [payload |-> [connection EXCEPT !.uuid = <<map[connection.hash]>>],
          connections |-> map]
    ELSE [payload |-> connection, connections |-> map]

\* the Payload::Close arm
TransformClose(map, connection) ==
    IF IsSome(MapGet(map, connection.hash))
    THEN [payload |-> [connection EXCEPT !.uuid = MapGet(map, connection.hash)],
          connections |-> MapRemove(map, connection.hash)]
    ELSE [payload |-> connection, connections |-> map]

\* State::transform: the returned payload and the map it leaves behind
StateTransform(map, payload) ==
    IF payload.kind = "Open"
    THEN TransformOpen(map, payload)
    ELSE TransformClose(map, payload)

TransformRecord(payload, r) ==
    [input |-> payload, output |-> r.payload,
     hadEntry |-> payload.hash \in DOMAIN connections,
     everOpened |-> openUuids[payload.hash],
     awaited |-> awaiting[payload.hash]]

\* one call state.transform(payload) on the correlator
DoTransform(payload) ==
    LET r == StateTransform(connections, payload)
        h == payload.hash
    IN  /\ connections' = r.connections
        /\ lastTransform' = Some(TransformRecord(payload, r))
        /\ openUuids' = IF payload.kind = "Open"
                        THEN [openUuids EXCEPT ![h] = @ \cup {payload.uuid}]
                        ELSE openUuids
        /\ awaiting' = IF payload.kind = "Open"
                       THEN [awaiting EXCEPT ![h] = Some(payload.uuid)]
                       ELSE [awaiting EXCEPT ![h] = None]

TransformCall(payload) ==
    /\ DoTransform(payload)
    /\ UNCHANGED <<filterVars, runVars, sinkVars, sideVars>>


\* ------------------------------------------------- conntrack ingester side
SrcIp == <<172, 16, 144, 102>>
DstIp == <<172, 16, 144, 1>>
WireSrcPorts == {40001}
\* the flows seen on the wire: (protocol, destination port)
WireFlows == {<<"TCP", 80>>, <<"UDP", DNS_PORT>>}

\* enum ProtoDetails
ProtoDetails ==
    {[variant |-> "ICMP", icmp_id |-> 1, icmp_type |-> 8, icmp_code |-> 0],
     [variant |-> "NotSupported"]}
    \cup {[variant |-> "IP", protocol |-> f[1], source_port |-> sp,
           destination_port |-> f[2]] : f \in WireFlows, sp \in WireSrcPorts}

\* struct Connection { state, details: ConnectionDetails }
Connection(state, protocol) ==
    [state |-> state,
     details |-> [source |-> SrcIp, destination |-> DstIp,
                  protocol |-> protocol]]

WireEvents == {Connection(st, pd) : st \in States, pd \in ProtoDetails}

WireHash(pd) ==
    AsSigned(generate_hash(ProtocolToString(pd.protocol), SrcIp,
                           pd.source_port, DstIp, pd.destination_port))

WireHashes == {WireHash(pd) : pd \in {d \in ProtoDetails : d.variant = "IP"}}

\* the fingerprint of the same flow taken in reply direction
ReplyHash(pd) ==
    AsSigned(generate_hash(ProtocolToString(pd.protocol), DstIp,
                           pd.destination_port, SrcIp, pd.source_port))

ReplyHashes == {ReplyHash(pd) : pd \in {d \in ProtoDetails : d.variant = "IP"}}

\* every fingerprint a payload may carry in a run of the agent
AllHashes == WireHashes \cup ReplyHashes

\* process_data_callback: sender.send(connection)
Receive(con) ==
    /\ boot.pc = "loop"
    /\ ingester = "up"
    /\ received < MaxEvents
    /\ received' = received + 1
    /\ rx' = Append(rx, con)
    /\ UNCHANGED <<filterVars, stateVars, pc, cur, inode, uid, username,
                   outq, uuidsDrawn, lastEvent, offered, calls, sinkVars, sideVars>>

\* ------------------------------------------------------------ Parser::parse
\* what the environment shows to one pass of the retry loop: the row that
\* chomper.find returns after chomper.update, if any
Uids == {1000}
Inodes == {0, 7, U32_MAX}
SocketRows == {[uid |-> u, inode |-> i] : u \in Uids, i \in Inodes}

\* user_cache.get_user_by_uid: the passwd database knows uid 1000 only
GetUserByUid(u) == IF u = 1000 THEN Some("alice") ELSE None

\* variant: only NotSupported falls into the catch-all arm
IsIpEvent_IcmpToo(con) == con.details.protocol.variant # "NotSupported"

\* the match on con.details.protocol
IsIpEvent(con) == con.details.protocol.variant = "IP"

\* lines 157-178: inode -> Option<Program>; process is what proc.get returns
ProgramDetails(i, process) ==
    IF i = U32_MAX THEN None
    ELSE IF IsSome(process) THEN Some(Program(i, Unwrap(process)))
    ELSE None

\* variant: the fingerprint of a Destroy event is taken in reply direction
BuildPayload_CloseHashReversed(con, newUuid, user, u, program_details) ==
    LET pd == con.details.protocol
        hash == AsSigned(generate_hash(ProtocolToString(pd.protocol),
                   con.details.source, pd.source_port,
                   con.details.destination, pd.destination_port))
        rhash == AsSigned(generate_hash(ProtocolToString(pd.protocol),
                   con.details.destination, pd.destination_port,
                   con.details.source, pd.source_port))
    IN  IF con.state = "New"
        THEN Some(OpenConnection(hash, newUuid, pd.protocol,
                  con.details.source, con.details.destination,
                  pd.source_port, pd.destination_port, user, u,
                  program_details))
        ELSE IF con.state = "Destroy"
        THEN Some(CloseConnection(rhash, None, pd.protocol,
                  con.details.source, con.details.destination,
                  pd.source_port, pd.destination_port))
        ELSE None

\* variant: the catch-all arm of `match state` builds a Close as well
BuildPayload_UnknownAsClose(con, newUuid, user, u, program_details) ==
    LET pd == con.details.protocol
        hash == AsSigned(generate_hash(ProtocolToString(pd.protocol),
                   con.details.source, pd.source_port,
                   con.details.destination, pd.destination_port))
    IN  IF con.state = "New"
        THEN Some(OpenConnection(hash, newUuid, pd.protocol,
                  con.details.source, con.details.destination,
                  pd.source_port, pd.destination_port, user, u,
                  program_details))
        ELSE Some(CloseConnection(hash, None, pd.protocol,
                  con.details.source, con.details.destination,
                  pd.source_port, pd.destination_port))

\* lines 180-223: hash, uuid, and the payload chosen by the event state
BuildPayload(con, newUuid, user, u, program_details) ==
    LET pd == con.details.protocol
        hash == AsSigned(generate_hash(ProtocolToString(pd.protocol),
                   con.details.source, pd.source_port,
                   con.details.destination, pd.destination_port))
    IN  IF con.state = "New"
        THEN Some(OpenConnection(hash, newUuid, pd.protocol,
                  con.details.source, con.details.destination,
                  pd.source_port, pd.destination_port, user, u,
                  program_details))
        ELSE IF con.state = "Destroy"
        THEN Some(CloseConnection(hash, None, pd.protocol,
                  con.details.source, con.details.destination,
                  pd.source_port, pd.destination_port))
        ELSE None

\* serde_json::to_string(connection): the fields of the inner struct
ToJson(payload) == [f \in DOMAIN payload \ {"kind"} |-> payload[f]]

\* process_open_connection / process_close_connection: tx.send
Offer(queue, payload) ==
    Append(queue, [method |-> IF payload.kind = "Open" THEN "open"
                               ELSE "close",
                   message |-> ToJson(payload)])

Sinks == 1..NumSinks

\* variant: the loop over the outputs ends at the first send that fails
OfferAll_StopAtDeadSink(queues, up, payload) ==
    [s \in Sinks |-> IF \A t \in 1..s : up[t]
                     THEN Offer(queues[s], payload) ELSE queues[s]]

\* for output in &mut self.outputs: each send is tried, and `let _ =` drops
\* the SendError of an output whose Receiver is gone
OfferAll(queues, up, payload) ==
    [s \in Sinks |-> IF up[s] THEN Offer(queues[s], payload) ELSE queues[s]]

\* variant: the outputs are gone through from the last to the first
FanOut_Reversed(payload) ==
    [i \in 1..NumSinks |->
        [sink |-> NumSinks + 1 - i,
         method |-> IF payload.kind = "Open" THEN "open" ELSE "close",
         message |-> ToJson(payload)]]

\* lines 176-181: the calls made on the outputs, in the order of the Vec
FanOut(payload) ==
    [i \in 1..NumSinks |->
        [sink |-> i,
         method |-> IF payload.kind = "Open" THEN "open" ELSE "close",
         message |-> ToJson(payload)]]

EventRecord(con, parsed, dropped) ==
    [con |-> con, parsed |-> parsed, dropped |-> dropped]

\* rx.recv() hands over an event that Parser::parse drops at once
RecvNonIp ==
    /\ boot.pc = "loop"
    /\ pc = "recv"
    /\ rx # <<>>
    /\ ~IsIpEvent(Head(rx))
    /\ rx' = Tail(rx)
    /\ lastEvent' = Some(EventRecord(Head(rx), None, FALSE))
    /\ UNCHANGED <<filterVars, stateVars, received, pc, cur, inode, uid,
                   username, outq, uuidsDrawn, offered, calls, sinkVars, sideVars>>

\* rx.recv() hands over a TCP/UDP event: parse_ip_connection starts
RecvIp ==
    /\ boot.pc = "loop"
    /\ pc = "recv"
    /\ rx # <<>>
    /\ IsIpEvent(Head(rx))
    /\ rx' = Tail(rx)
    /\ cur' = Some(Head(rx))
    /\ inode' = 0
    /\ uid' = 0
    /\ username' = ""
    /\ pc' = "lookup"
    /\ UNCHANGED <<filterVars, stateVars, received, outq, uuidsDrawn,
                   lastEvent, offered, calls, sinkVars, sideVars>>

\* one pass of `while inode == 0` whose find returns a row with inode 0:
\* the locals are set, the thread sleeps, the loop goes round
RetryPass(row) ==
    /\ pc = "lookup"
    /\ row.inode = 0
    /\ inode' = row.inode
    /\ uid' = row.uid
    /\ username' = IF IsSome(GetUserByUid(row.uid))
                   THEN Unwrap(GetUserByUid(row.uid)) ELSE username
    /\ UNCHANGED <<filterVars, stateVars, rx, received, pc, cur, outq,
                   uuidsDrawn, lastEvent, offered, calls, sinkVars, bootVars,
                   idVars, procVars, srvVars>>

\* the same pass, the row being what the socket table is taken to show
LookupRetry(row) == RetryPass(row) /\ UNCHANGED chomperVars

\* variant: the correlator sees the payload before the filter's verdict is
\* acted on
Dispatch_TransformFirst(con, parsed) ==
    IF IsNone(parsed)
    THEN /\ lastEvent' = Some(EventRecord(con, parsed, FALSE))
         /\ UNCHANGED <<filterVars, stateVars, outq, offered, calls>>
    ELSE /\ DoApply(Unwrap(parsed))
         /\ DoTransform(Unwrap(parsed))
         /\ IF lastApply'[1].ret
            THEN /\ lastEvent' = Some(EventRecord(con, parsed, TRUE))
                 /\ UNCHANGED <<outq, offered, calls>>
            ELSE /\ outq' = OfferAll(outq, workerUp,
                                     lastTransform'[1].output)
                 /\ offered' = Offer(offered, lastTransform'[1].output)
                 /\ calls' = calls \o FanOut(lastTransform'[1].output)
                 /\ lastEvent' = Some(EventRecord(con, parsed, FALSE))

\* the rest of the loop iteration once parse has produced `parsed`
Dispatch(con, parsed) ==
    IF IsNone(parsed)
    THEN /\ lastEvent' = Some(EventRecord(con, parsed, FALSE))
         /\ UNCHANGED <<filterVars, stateVars, outq, offered, calls>>
    ELSE /\ DoApply(Unwrap(parsed))
         /\ IF lastApply'[1].ret
            THEN /\ lastEvent' = Some(EventRecord(con, parsed, TRUE))
                 /\ UNCHANGED <<stateVars, outq, offered, calls>>
            ELSE /\ DoTransform(Unwrap(parsed))
                 /\ outq' = OfferAll(outq, workerUp,
                                     lastTransform'[1].output)
                 /\ offered' = Offer(offered, lastTransform'[1].output)
                 /\ calls' = calls \o FanOut(lastTransform'[1].output)
                 /\ lastEvent' = Some(EventRecord(con, parsed, FALSE))

\* the last pass of the retry loop (no row, or a row with nonzero inode),
\* then the rest of parse_ip_connection and of the loop body of run
FinishPass(found, process) ==
    /\ pc = "lookup"
    /\ IsSome(found) => Unwrap(found).inode # 0
    /\ LET i == IF IsSome(found) THEN Unwrap(found).inode ELSE U32_MAX
           u == IF IsSome(found) THEN Unwrap(found).uid ELSE uid
           user == IF IsSome(found) /\ IsSome(GetUserByUid(u))
                   THEN Unwrap(GetUserByUid(u)) ELSE username
           parsed == BuildPayload(Unwrap(cur), WireUuid(uuidsDrawn + 1),
                                  user, u, ProgramDetails(i, process))
       IN  /\ inode' = i
           /\ uid' = u
           /\ username' = user
           /\ Dispatch(Unwrap(cur), parsed)
    /\ uuidsDrawn' = uuidsDrawn + 1
    /\ pc' = "recv"
    /\ cur' = None
    /\ UNCHANGED <<rx, received, sinkVars, bootVars, idVars, procVars, srvVars>>

\* the same, `found` being what the socket table is taken to show
LookupFinish(found, process) ==
    FinishPass(found, process) /\ UNCHANGED chomperVars

\* process.cmdline().unwrap() on a process whose cmdline cannot be read:
\* the panic unwinds the thread that runs the main loop
PanicPass(found) ==
    /\ pc = "lookup"
    /\ found.inode # 0
    /\ found.inode # U32_MAX
    /\ inode' = found.inode
    /\ uid' = found.uid
    /\ username' = IF IsSome(GetUserByUid(found.uid))
                   THEN Unwrap(GetUserByUid(found.uid)) ELSE username
    /\ pc' = "panicked"
    /\ UNCHANGED <<filterVars, stateVars, rx, received, cur, outq,
                   uuidsDrawn, lastEvent, offered, calls, sinkVars, bootVars,
                   idVars, procVars, srvVars>>

\* the same, `found` being what the socket table is taken to show
CmdlinePanic(found) == PanicPass(found) /\ UNCHANGED chomperVars

\* ------------------------------------------------------------ sink workers
\* variant: the worker takes the newest message of its channel
WorkerTake_Newest(queue) ==
    [message |-> queue[Len(queue)],
     rest |-> SubSeq(queue, 1, Len(queue) - 1)]

\* rx.recv() in a worker thread: the oldest message of its channel
WorkerTake(queue) == [message |-> Head(queue), rest |-> Tail(queue)]

\* one turn of a worker's loop: recv, then the write (syslog) or post (server)
WorkerRecv(s) ==
    /\ workerUp[s]
    /\ outq[s] # <<>>
    /\ handled' = [handled EXCEPT ![s] = Append(@, WorkerTake(outq[s]).message)]
    /\ outq' = [outq EXCEPT ![s] = WorkerTake(outq[s]).rest]
    /\ UNCHANGED <<filterVars, stateVars, rx, received, pc, cur, inode, uid,
                   username, uuidsDrawn, lastEvent, offered, calls, lost,
                   workerUp,
                   sideVars>>

\* variant: the worker leaves its loop after a failed write or post
AfterFailure_Break(up, s) == [up EXCEPT ![s] = FALSE]

\* the Err arm of the write or post: error!(..), and the loop goes round
AfterFailure(up, s) == up

\* one turn of a worker's loop whose write or post fails: the error is
\* logged and the message is gone
WorkerFail(s) ==
    /\ workerUp[s]
    /\ outq[s] # <<>>
    /\ handled' = [handled EXCEPT ![s] = Append(@, WorkerTake(outq[s]).message)]
    /\ lost' = [lost EXCEPT ![s] = Append(@, WorkerTake(outq[s]).message)]
    /\ outq' = [outq EXCEPT ![s] = WorkerTake(outq[s]).rest]
    /\ workerUp' = AfterFailure(workerUp, s)
    /\ UNCHANGED <<filterVars, stateVars, rx, received, pc, cur, inode, uid,
                   username, uuidsDrawn, lastEvent, offered, calls, sideVars>>

\* the Senders of the outputs are dropped with the NoTrack value: when main
\* has returned, or when a panic has unwound the main thread
SendersClosed == boot.pc = "exited" \/ pc = "panicked"

\* rx.recv() in a worker thread returns Err (the channel is empty and its
\* Sender is gone): error!("closing thread"), break
WorkerClosed(s) ==
    /\ workerUp[s]
    /\ SendersClosed
    /\ outq[s] = <<>>
    /\ workerUp' = [workerUp EXCEPT ![s] = FALSE]
    /\ UNCHANGED <<filterVars, stateVars, runVars, handled, lost, sideVars>>

\* a worker thread ends by a panic under its write or post call
\* (reqwest::Client::new() panics when the TLS backend cannot be set up):
\* its Receiver is dropped, and the messages still queued with it
WorkerExit(s) ==
    /\ workerUp[s]
    /\ workerUp' = [workerUp EXCEPT ![s] = FALSE]
    /\ outq' = [outq EXCEPT ![s] = <<>>]
    /\ UNCHANGED <<filterVars, stateVars, rx, received, pc, cur, inode, uid,
                   username, uuidsDrawn, lastEvent, offered, calls, handled,
                   lost,
                   sideVars>>

\* --------------------------------------------------- identity (lib.rs)
\* A text file is the sequence of its lines and a line the sequence of its
\* words; a name is one line, a uuid one word.
UnknownName == <<"unknown">>
FreshUuid(n) == "v4-" \o ToString(n) \* the n-th Uuid::new_v4() of a run
KnownUuids == {"uuid-cfg", "uuid-file"} \cup {FreshUuid(n) : n \in 1..MaxRuns}

\* serde_yaml::to_string(&NameTuple)
ToYaml(tuple) ==
    <<  <<"---">>,
        <<"name:">> \o (IF IsSome(tuple.name) THEN Unwrap(tuple.name)
                        ELSE <<"~">>),
        <<"uuid:", IF IsSome(tuple.uuid) THEN Unwrap(tuple.uuid) ELSE "~">> >>

\* the fields serde reads from the lines of a YAML mapping, left to right
RECURSIVE YamlFields(_, _)
YamlFields(lines, acc) ==
    IF lines = <<>> THEN Some(acc)
    ELSE LET l == Head(lines)
         IN  IF l = <<>> THEN None
             ELSE IF Head(l) = "name:" /\ Len(l) > 1
             THEN YamlFields(Tail(lines),
                    [acc EXCEPT !.name = IF Tail(l) = <<"~">> THEN None
                                         ELSE Some(Tail(l))])
             ELSE IF Head(l) = "uuid:" /\ Len(l) = 2
             THEN IF l[2] = "~"
                  THEN YamlFields(Tail(lines), [acc EXCEPT !.uuid = None])
                  ELSE IF l[2] \in KnownUuids
                  THEN YamlFields(Tail(lines),
                                  [acc EXCEPT !.uuid = Some(l[2])])
                  ELSE None
             ELSE None

\* serde_yaml::from_str::<NameTuple>: absent fields are None, anything that
\* is not a mapping of name and uuid is an error
FromYaml(lines) ==
    IF lines = <<>> THEN None
    ELSE IF Head(lines) = <<"---">>
    THEN (IF Len(lines) = 1 THEN None
          ELSE YamlFields(Tail(lines), [name |-> None, uuid |-> None]))
    ELSE YamlFields(lines, [name |-> None, uuid |-> None])

\* load_uuid_name_tuple: a missing or unparsable file gives (None, None)
load_uuid_name_tuple(file) ==
    IF IsNone(file) THEN [name |-> None, uuid |-> None]
    ELSE IF IsSome(FromYaml(Unwrap(file))) THEN Unwrap(FromYaml(Unwrap(file)))
    ELSE [name |-> None, uuid |-> None]

\* load_names: the lines of the file, none when it does not exist
load_names(file) == IF IsNone(file) THEN <<>> ELSE Unwrap(file)

\* variant: the persisted identity wins over the config
populate_config_FileFirst(cfg, tuple, names, fresh, pick) ==
    [uuid |-> IF IsSome(tuple.uuid) THEN tuple.uuid
              ELSE IF IsSome(cfg.uuid) THEN cfg.uuid
              ELSE Some(fresh),
     name |-> IF IsSome(tuple.name) THEN tuple.name
              ELSE IF IsSome(cfg.name) THEN cfg.name
              ELSE IF names # <<>> THEN Some(names[pick])
              ELSE Some(UnknownName)]

\* populate_config, lines 272-299: fresh is what Uuid::new_v4() returns and
\* pick the index rand::thread_rng().choose(&names) lands on
populate_config(cfg, tuple, names, fresh, pick) ==
    [uuid |-> IF IsSome(cfg.uuid) THEN cfg.uuid
              ELSE IF IsSome(tuple.uuid) THEN tuple.uuid
              ELSE Some(fresh),
     name |-> IF IsSome(cfg.name) THEN cfg.name
              ELSE IF IsSome(tuple.name) THEN tuple.name
              ELSE IF names # <<>> THEN Some(names[pick])
              ELSE Some(UnknownName)]

\* does this call reach Uuid::new_v4()?
DrawsUuid(cfg, tuple) == IsNone(cfg.uuid) /\ IsNone(tuple.uuid)

Picks(names) == IF names = <<>> THEN {1} ELSE 1..Len(names)

IdRecord(cfg, tuple, names, r) ==
    [config |-> cfg, tuple |-> tuple, names |-> names, name |-> r.name,
     uuid |-> r.uuid]

\* the whole of populate_config on the data directory: both files are read,
\* the identity is resolved, and save_uuid_name_tuple is called with
\* names_file_name (line 301)
DoPopulateConfig(cfg, pick) ==
    LET tuple == load_uuid_name_tuple(tupleFile)
        names == load_names(namesFile)
        r == populate_config(cfg, tuple, names, FreshUuid(v4Drawn + 1), pick)
    IN  /\ pick \in Picks(names)
        /\ v4Drawn' = IF DrawsUuid(cfg, tuple) THEN v4Drawn + 1 ELSE v4Drawn
        /\ namesFile' = Some(ToYaml([name |-> r.name, uuid |-> r.uuid]))
        /\ tupleFile' = tupleFile
        /\ idRuns' = Append(idRuns, IdRecord(cfg, tuple, names, r))
        /\ UNCHANGED idConfig

\* one direct call populate_config(config), as the unit tests make it
PopulateConfig(pick) ==
    /\ Len(idRuns) < MaxRuns
    /\ DoPopulateConfig(idConfig, pick)
    /\ UNCHANGED <<filterVars, stateVars, runVars, sinkVars, bootVars,
                   procVars, srvVars,
                   chomperVars>>

\* ------------------------------------------- proc_chomper: socket table
CharAt(s, i) == SubSeq(s, i, i)

\* the pieces of two adjoining stretches of text: the last piece of the
\* left one runs on into the first piece of the right one
JoinPieces(l, r) ==
    SubSeq(l, 1, Len(l) - 1) \o <<l[Len(l)] \o r[1]>> \o Tail(r)

\* str::split(sep), collected: the pieces between the separators, computed
\* by halving the stretch s[lo..hi]
RECURSIVE SplitRange(_, _, _, _)
SplitRange(s, sep, lo, hi) ==
    IF lo > hi THEN <<"">>
    ELSE IF lo = hi
    THEN (IF CharAt(s, lo) = sep THEN <<"", "">> ELSE <<CharAt(s, lo)>>)
    ELSE JoinPieces(SplitRange(s, sep, lo, (lo + hi) \div 2),
                    SplitRange(s, sep, ((lo + hi) \div 2) + 1, hi))

Split(s, sep) == SplitRange(s, sep, 1, Len(s))

\* split.retain(|&x| x.len() != 0)
NotEmpty(x) == Len(x) # 0
Retain(pieces) == SelectSeq(pieces, NotEmpty)

UpperHex == "0123456789ABCDEF"
LowerHex == "0123456789abcdef"
IsDigitOf(c, radix) ==
    \E v \in 0..(radix - 1) : CharAt(UpperHex, v + 1) = c \/ CharAt(LowerHex, v + 1) = c
DigitVal(c) ==
    CHOOSE v \in 0..15 : CharAt(UpperHex, v + 1) = c \/ CharAt(LowerHex, v + 1) = c

\* from_str_radix / str::parse for a value that fits max: None is Err(_)
RECURSIVE ParseFrom(_, _, _, _, _)
ParseFrom(s, radix, max, i, acc) ==
    IF i > Len(s) THEN Some(acc)
    ELSE IF ~IsDigitOf(CharAt(s, i), radix) THEN None
    ELSE IF acc > (max - DigitVal(CharAt(s, i))) \div radix THEN None
    ELSE ParseFrom(s, radix, max, i + 1, acc * radix + DigitVal(CharAt(s, i)))

ParseInt(s, radix, max) ==
    IF Len(s) = 0 THEN None ELSE ParseFrom(s, radix, max, 1, 0)

\* u32::from_str_radix(s, 16) for the eight digits the kernel prints. A u32
\* is kept as its four bytes, most significant first.
U32FromHex(s) ==
    IF Len(s) # 8 \/ \E i \in 1..8 : ~IsDigitOf(CharAt(s, i), 16) THEN None
    ELSE Some([k \in 1..4 |->
                 Unwrap(ParseInt(SubSeq(s, 2 * k - 1, 2 * k), 16, 255))])

\* variant: u32::from_be as it is on a big-endian target, the identity
from_be_Identity(bytes) == bytes

\* u32::from_be on a little-endian target: the bytes are swapped
from_be(bytes) == [k \in 1..4 |-> bytes[5 - k]]

\* Ipv4Addr::from(u32): the octets are the bytes, most significant first
Ipv4FromU32(bytes) == bytes

\* split_address
split_address(pair) ==
    IF Len(Split(pair, ":")) < 2 THEN None
    ELSE Some(<<Split(pair, ":")[1], Split(pair, ":")[2]>>)

SocketConnection(local_address, local_port, remote_address, remote_port, u, i) ==
    [local_address |-> local_address, local_port |-> local_port,
     remote_address |-> remote_address, remote_port |-> remote_port,
     uid |-> u, inode |-> i]

\* parse_connection: value is what it returns, panicked tells that one of
\* its unwrap() calls met an Err
parse_connection(line) ==
    LET split == Retain(Split(line, " "))
        has(count) == Len(split) > count
        la == IF has(1) THEN split_address(split[2]) ELSE None
        ra == IF has(2) THEN split_address(split[3]) ELSE None
        laddr == IF IsSome(la) THEN U32FromHex(Unwrap(la)[1]) ELSE None
        lport == IF IsSome(la) THEN ParseInt(Unwrap(la)[2], 16, 65535) ELSE None
        raddr == IF IsSome(ra) THEN U32FromHex(Unwrap(ra)[1]) ELSE None
        rport == IF IsSome(ra) THEN ParseInt(Unwrap(ra)[2], 16, 65535) ELSE None
        u == IF has(7) THEN ParseInt(split[8], 10, 65535) ELSE None
        i == IF has(9) THEN ParseInt(split[10], 10, U32_MAX) ELSE None
    IN  IF \/ IsSome(la) /\ (IsNone(laddr) \/ IsNone(lport))
           \/ IsSome(ra) /\ (IsNone(raddr) \/ IsNone(rport))
           \/ has(7) /\ IsNone(u)
           \/ has(9) /\ IsNone(i)
        THEN [panicked |-> TRUE, value |-> None]
        ELSE [panicked |-> FALSE,
              value |-> Some(SocketConnection(
                IF IsSome(la) THEN Ipv4FromU32(from_be(Unwrap(laddr)))
                ELSE Localhost,
                IF IsSome(la) THEN Unwrap(lport) ELSE 0,
                IF IsSome(ra) THEN Ipv4FromU32(from_be(Unwrap(raddr)))
                ELSE Localhost,
                IF IsSome(ra) THEN Unwrap(rport) ELSE 0,
                IF has(7) THEN Unwrap(u) ELSE 0,
                IF has(9) THEN Unwrap(i) ELSE 0))]

\* the row of test_parse_connection_success
TestRow ==
    "   3: 669010AC:0016 019010AC:D575 01 00000000:00000000 02:000577BD 00000000     0        0 1227937 2 0000000000000000 20 4 25 2 2                    "

\* the kernel's side: a socket, and the row it prints for it (%08X of the
\* address as the little-endian machine reads it, %04X of the port)
RECURSIVE ToHex(_, _)
ToHex(n, width) ==
    IF width = 0 THEN ""
    ELSE ToHex(n \div 16, width - 1) \o CharAt(UpperHex, (n % 16) + 1)

AddrText(octets) ==
    ToHex(octets[4], 2) \o ToHex(octets[3], 2) \o ToHex(octets[2], 2)
        \o ToHex(octets[1], 2)

\* a row with the given texts in columns 1, 2, 7 and 9
RowLine(local, remote, u, i) ==
    "   3: " \o local \o " " \o remote
    \o " 01 00000000:00000000 02:000577BD 00000000  "
    \o u \o "        0 " \o i \o " 2 0000000000000000 20 4 25 2 2   "

RowText(row) ==
    RowLine(AddrText(row.local_address) \o ":" \o ToHex(row.local_port, 4),
            AddrText(row.remote_address) \o ":" \o ToHex(row.remote_port, 4),
            ToString(row.uid), ToString(row.inode))

TestOctets == {172, 16, 144, 102}
KernelRows ==
    {SocketConnection(<<a, b, c, d>>, lp, r[1], r[2], u, i) :
        a \in TestOctets, b \in TestOctets, c \in TestOctets,
        d \in TestOctets, lp \in {22, DNS_PORT, 54645},
        r \in {<<<<172, 16, 144, 1>>, 54645>>, <<<<0, 0, 0, 0>>, 0>>},
        u \in {0, 1000}, i \in {0, 1227937}}

\* ProcChomper::update hands one row to parse_connection
ParseConnection ==
    /\ IsNone(procParsed)
    /\ procParsed' = Some(parse_connection(procLine))
    /\ UNCHANGED <<filterVars, stateVars, runVars, sinkVars, bootVars, idVars,
                   procRow, procLine, chomperVars, srvVars>>

\* struct Key { address, port }
Key(address, port) == <<address, port>>

\* the first line of /proc/net/tcp and /proc/net/udp
TableHeader ==
    "  sl  local_address rem_address   st tx_queue rx_queue tr tm->when retrnsmt   uid  timeout inode"

\* rows the kernel may show for the source endpoint of the TCP flow
ParserRows ==
    {SocketConnection(SrcIp, sp, DstIp, 80, r.uid, r.inode) :
        sp \in WireSrcPorts, r \in SocketRows}

\* a row whose inode column is no number
BadRow == RowLine("669010AC:0016", "019010AC:D575", "0", "x")

\* rows of two sockets connected to one remote endpoint
SharedRemoteRows ==
    {SocketConnection(SrcIp, 40001, DstIp, 80, 1000, 7),
     SocketConnection(SrcIp, 40002, DstIp, 80, 0, 8)}

\* rows whose local or remote address column has no colon
NoColonRows ==
    {RowLine("669010AC9C43", "019010AC:0050", "1000", "9"),
     RowLine("669010AC:9C44", "019010AC0050", "1000", "10")}

\* the lines the socket tables of these runs are made of
KnownLines ==
    {BadRow} \cup NoColonRows
    \cup {RowText(row) : row \in ParserRows \cup SharedRemoteRows}

\* parse_connection of each of them, worked out once
ParsedLines == [line \in KnownLines |-> parse_connection(line)]

\* the call parse_connection(&line) of update
ParseLine(line) == ParsedLines[line]

\* the two inserts of update's loop body: the row under its local and
\* under its remote endpoint
EnterRow(map, c) ==
    MapInsert(MapInsert(map, Key(c.local_address, c.local_port), c),
              Key(c.remote_address, c.remote_port), c)

\* the for loop of update from line `num` on (the first line is line 0):
\* each row parse_connection returns is entered under both its endpoints
RECURSIVE InsertRows(_, _, _)
RECURSIVE InsertParsed(_, _, _, _)
InsertParsed(lines, num, map, r) ==
    IF r.panicked THEN [panicked |-> TRUE, map |-> map]
    ELSE InsertRows(lines, num + 1,
                    IF IsSome(r.value) THEN EnterRow(map, Unwrap(r.value))
                    ELSE map)

InsertRows(lines, num, map) ==
    IF num >= Len(lines) THEN [panicked |-> FALSE, map |-> map]
    ELSE IF num = 0 THEN InsertRows(lines, 1, map)
    ELSE InsertParsed(lines, num, map, ParseLine(lines[num + 1]))

\* what update leaves: the map stays when a row made parse_connection
\* panic (the calling thread unwinds), else it is the map built
UpdateResult(map, built) ==
    IF built.panicked THEN [ret |-> "panic", map |-> map]
    ELSE [ret |-> "Ok", map |-> built.map]

\* variant: the rows are entered into the map of the earlier snapshot
update_IntoOldMap(map, file) ==
    IF IsNone(file) THEN [ret |-> "Err", map |-> map]
    ELSE UpdateResult(map, InsertRows(Unwrap(file), 0, map))

\* ProcChomper::update: ret is "Err" when File::open fails (the map stays),
\* "panic" when a row makes parse_connection panic, else "Ok" with the map
\* built from the file
update(map, file) ==
    IF IsNone(file) THEN [ret |-> "Err", map |-> map]
    ELSE UpdateResult(map, InsertRows(Unwrap(file), 0, <<>>))

\* ProcChomper::find
find(map, address, port) == MapGet(map, Key(address, port))

TableProtocols == {"TCP", "UDP"}

UpdateRecord(protocol, file, ret) ==
    [protocol |-> protocol, file |-> file, ret |-> ret]

\* the kernel's socket table of one protocol changes
KernelWrite(protocol, file) ==
    /\ netFile[protocol] # file
    /\ netFile' = [netFile EXCEPT ![protocol] = file]
    /\ UNCHANGED <<filterVars, stateVars, runVars, sinkVars, bootVars, idVars,
                   procVars, srvVars, chomperMap, lastUpdate, lastPass>>

\* what a call of update does to the chomper
Chomps(protocol, r) ==
    /\ chomperMap' = [chomperMap EXCEPT ![protocol] = r.map]
    /\ lastUpdate' = Some(UpdateRecord(protocol, netFile[protocol], r.ret))

\* one call of update on the chomper of a protocol, made directly
ChomperUpdate(protocol) ==
    /\ IsSome(lastUpdate) => Unwrap(lastUpdate).ret # "panic"
    /\ Chomps(protocol, update(chomperMap[protocol], netFile[protocol]))
    /\ UNCHANGED <<filterVars, stateVars, runVars, sinkVars, bootVars, idVars,
                   procVars, srvVars, netFile, lastPass>>

\* ------------------------------- parse_ip_connection on its socket table
\* lines 130-133: the chomper of the event's protocol
PassProtocol == Unwrap(cur).details.protocol.protocol

\* line 140: `let _ = chomper.update()`, an Err leaves the map as it was
PassUpdate == update(chomperMap[PassProtocol], netFile[PassProtocol])

\* line 141: chomper.find(&source, source_port) in the map the update left
PassFind(map) ==
    find(map, Unwrap(cur).details.source,
         Unwrap(cur).details.protocol.source_port)

\* seq numbers the parse_ip_connection call the pass belongs to; owner is
\* what procfs holds for the inode found (proc.get with an unreadable or
\* vanished process: None)
PassRecord(found, owner) ==
    [seq |-> received - Len(rx), con |-> Unwrap(cur),
     file |-> netFile[PassProtocol], found |-> found, owner |-> owner]

\* lines 140-141 of one pass: the update and what find returns after it
Looked(u) == [ret |-> u.ret, map |-> u.map, found |-> PassFind(u.map)]

PassLook == Looked(PassUpdate)

\* what a pass does to the chomper
PassChomps(u) ==
    /\ Chomps(PassProtocol, u)
    /\ UNCHANGED netFile

\* a pass that finds a row with inode 0
TableRetry(look) ==
    /\ pc = "lookup"
    /\ look.ret # "panic"
    /\ IsSome(look.found)
    /\ RetryPass(Unwrap(look.found))
    /\ PassChomps(look)
    /\ lastPass' = Some(PassRecord(look.found, None))

\* the last pass, the rest of parse_ip_connection and of the loop body
TableFinish(look, process) ==
    /\ pc = "lookup"
    /\ look.ret # "panic"
    /\ FinishPass(look.found, process)
    /\ PassChomps(look)
    /\ lastPass' = Some(PassRecord(look.found, process))

\* the last pass, then process.cmdline().unwrap() on an Err
TablePanic(look, process) ==
    /\ pc = "lookup"
    /\ look.ret # "panic"
    /\ IsSome(look.found)
    /\ PanicPass(Unwrap(look.found))
    /\ PassChomps(look)
    /\ lastPass' = Some(PassRecord(look.found, Some(process)))

\* a pass whose update meets a row that makes parse_connection panic
TableUpdatePanic(look) ==
    /\ pc = "lookup"
    /\ look.ret = "panic"
    /\ lastUpdate' = Some(UpdateRecord(PassProtocol, netFile[PassProtocol],
                                       look.ret))
    /\ pc' = "panicked"
    /\ UNCHANGED <<filterVars, stateVars, rx, received, cur, inode, uid,
                   username, outq, uuidsDrawn, lastEvent, offered, calls, sinkVars,
                   bootVars, idVars, procVars, srvVars, netFile, chomperMap, lastPass>>

\* ------------------------------------------------ start of the binary
SyslogKinds == {"Localhost", "TCP", "UDP"} \* enum SyslogConfig
SinkLists == UNION {[1..n -> SyslogKinds] : n \in 0..NumSinks}
ConfigFiles == {"missing", "garbage", "ok"}

\* what one start of the binary finds: the config file, the -d argument,
\* the directory the config names, the directories that exist, the outputs
\* the config lists, the syslog transports that can be opened, and whether
\* netlink can be bound and procfs read
Envs ==
    [file : ConfigFiles, argDir : {None, Some("/arg")},
     cfgDir : {None, Some("/cfg")}, dirs : SUBSET {"/arg", "/cfg"},
     sinks : SinkLists, reachable : SUBSET SyslogKinds,
     bindOk : BOOLEAN, procOk : BOOLEAN]

\* serde_yaml::from_str::<Config>(text)
ParseConfig(e) ==
    IF e.file = "ok"
    THEN Some([directory |-> e.cfgDir, outputs |-> e.sinks])
    ELSE None

StartError(kind) ==
    IF kind = "Localhost" THEN "unable to start localhost syslog"
    ELSE IF kind = "TCP" THEN "unable to start TCP syslog sender"
    ELSE "unable to start UDP syslog sender"

\* variant: an output that cannot start is left out
RECURSIVE create_SkipFailed(_, _, _)
create_SkipFailed(syslog, reachable, outputs) ==
    IF syslog = <<>>
    THEN [err |-> None, outputs |-> outputs, spawned |-> Len(outputs)]
    ELSE IF Head(syslog) \in reachable
    THEN create_SkipFailed(Tail(syslog), reachable,
                           Append(outputs, Head(syslog)))
    ELSE create_SkipFailed(Tail(syslog), reachable, outputs)

\* outputs::create: the constructors are called in list order and `?` leaves
\* at the first that fails; spawned counts the workers started before that
RECURSIVE create(_, _, _)
create(syslog, reachable, outputs) ==
    IF syslog = <<>>
    THEN [err |-> None, outputs |-> outputs, spawned |-> Len(outputs)]
    ELSE IF Head(syslog) \in reachable
    THEN create(Tail(syslog), reachable, Append(outputs, Head(syslog)))
    ELSE [err |-> Some(StartError(Head(syslog))), outputs |-> <<>>,
          spawned |-> Len(outputs)]

\* variant: the directory of the config wins over the argument
from_str_ConfigFirst(parsed, data_directory, dirs) ==
    IF IsNone(parsed)
    THEN [err |-> Some("unable to parse config"), directory |-> None]
    ELSE LET directory == IF IsSome(Unwrap(parsed).directory)
                          THEN Unwrap(parsed).directory
                          ELSE data_directory
         IN  IF IsNone(directory)
             THEN [err |-> Some("no data directory defined"),
                   directory |-> None]
             ELSE IF Unwrap(directory) \notin dirs
             THEN [err |-> Some("data directory defined, does not exist"),
                   directory |-> None]
             ELSE [err |-> None, directory |-> directory]

\* NoTrack::from_str up to the call of NoTrack::new: the error it returns,
\* or the directory it puts into the config
from_str(parsed, data_directory, dirs) ==
    IF IsNone(parsed)
    THEN [err |-> Some("unable to parse config"), directory |-> None]
    ELSE LET directory == IF IsSome(data_directory) THEN data_directory
                          ELSE Unwrap(parsed).directory
         IN  IF IsNone(directory)
             THEN [err |-> Some("no data directory defined"),
                   directory |-> None]
             ELSE IF Unwrap(directory) \notin dirs
             THEN [err |-> Some("data directory defined, does not exist"),
                   directory |-> None]
             ELSE [err |-> None, directory |-> directory]

\* the exit status of a process whose main returns
ExitCode(result) == 0

BootRecord(p, err, directory, outputs, spawned, filterBuilt, exit) ==
    [pc |-> p, err |-> err, directory |-> directory, outputs |-> outputs,
     spawned |-> spawned, filterBuilt |-> filterBuilt, exit |-> exit]

BootFailed(err, spawned) ==
    BootRecord("failed", Some(err), None, <<>>, spawned, FALSE, None)

\* main up to `let mut app`: from_file, from_str and NoTrack::new
StartFromFile(pick) ==
    /\ boot.pc = "main"
    /\ LET fs == from_str(ParseConfig(env), env.argDir, env.dirs)
           c == create(Unwrap(ParseConfig(env)).outputs, env.reachable, <<>>)
       IN  IF env.file = "missing"
           THEN /\ boot' = BootFailed("unable to open config file", 0)
                /\ pick = 1
                /\ UNCHANGED idVars
           ELSE IF IsSome(fs.err)
           THEN /\ boot' = BootFailed(Unwrap(fs.err), 0)
                /\ pick = 1
                /\ UNCHANGED idVars
           ELSE IF IsSome(c.err)
           THEN /\ boot' = BootFailed(Unwrap(c.err), c.spawned)
                /\ pick = 1
                /\ UNCHANGED idVars
           ELSE /\ boot' = BootRecord("built", None, fs.directory, c.outputs,
                                      c.spawned, TRUE, None)
                /\ DoPopulateConfig(idConfig, pick)
    /\ UNCHANGED <<filterVars, stateVars, runVars, sinkVars, env, ingester, backlog,
                   procVars, srvVars,
                   chomperVars>>

\* NoTrack::run up to the main loop: Conntrack::new, Parser::new, State::new
StartRun ==
    /\ boot.pc = "built"
    /\ boot' = IF ~env.bindOk
               THEN [boot EXCEPT !.pc = "failed", !.err = Some(
                   "unable to bind to conntrack, please check permissions")]
               ELSE IF ~env.procOk
               THEN [boot EXCEPT !.pc = "failed", !.err = Some(
                   "unable to parse process descriptors, please check permissions")]
               ELSE [boot EXCEPT !.pc = "loop"]
    /\ ingester' = IF env.bindOk /\ env.procOk THEN "up" ELSE ingester
    /\ UNCHANGED <<filterVars, stateVars, runVars, sinkVars, env, backlog,
                   idVars,
                   procVars, srvVars,
                   chomperVars>>

\* Conntrack::start: recvfrom or cb_run returns Err and unwrap_or_else
\* panics; the thread unwinds and its Sender is dropped
IngesterFail ==
    /\ boot.pc = "loop"
    /\ ingester = "up"
    /\ ingester' = "dead"
    /\ backlog' = rx
    /\ UNCHANGED <<filterVars, stateVars, runVars, sinkVars, env, boot, idVars,
                   procVars, srvVars, chomperVars>>

\* variant: recv fails as soon as the ingester thread is gone
RecvFails_AtOnce == ingester = "dead"

\* rx.recv() returns Err: the channel is empty and its Sender is gone
RecvFails == ingester = "dead" /\ rx = <<>>

\* the else arm of `if let Ok(con) = rx.recv()`: warn!, break, and run
\* returns Ok(())
StartShutdown ==
    /\ boot.pc = "loop"
    /\ pc = "recv"
    /\ RecvFails
    /\ boot' = [boot EXCEPT !.pc = "returned"]
    /\ UNCHANGED <<filterVars, stateVars, runVars, sinkVars, env, ingester, backlog,
                   idVars,
                   procVars, srvVars,
                   chomperVars>>

\* main logs the error, if any, and returns
MainReturn ==
    /\ boot.pc \in {"failed", "returned"}
    /\ boot' = [boot EXCEPT !.pc = "exited",
                            !.exit = Some(ExitCode(boot.err))]
    /\ UNCHANGED <<filterVars, stateVars, runVars, sinkVars, env, ingester, backlog,
                   idVars,
                   procVars, srvVars,
                   chomperVars>>

\* ------------------------------------------------------------------- specs
\* default_filters() of the tests of lib.rs
DefaultFilters ==
    [non_process_connections |-> TRUE, dns_requests |-> TRUE,
     notrust_track_connections |-> TRUE]

\* Filter::new, State::new, channel(), and the start of the main loop
\* (hashes: the fingerprints the payloads of the run may carry, the keys of
\* the history maps)
PipelineInit(cfgs, hashes) ==
    /\ config \in cfgs
    /\ filtered = {}
    /\ connections = <<>>
    /\ lastApply = None
    /\ pending = {}
    /\ passedEver = {}
    /\ closedDrop = {}
    /\ preDrop = [h \in hashes |-> None]
    /\ lastTransform = None
    /\ openUuids = [h \in hashes |-> {}]
    /\ awaiting = [h \in hashes |-> None]
    /\ rx = <<>>
    /\ received = 0
    /\ pc = "recv"
    /\ cur = None
    /\ inode = 0
    /\ uid = 0
    /\ username = ""
    /\ outq = [s \in Sinks |-> <<>>]
    /\ uuidsDrawn = 0
    /\ lastEvent = None
    /\ offered = <<>>
    /\ calls = <<>>
    /\ handled = [s \in Sinks |-> <<>>]
    /\ lost = [s \in Sinks |-> <<>>]
    /\ workerUp = [s \in Sinks |-> TRUE]

\* a machine on which the binary starts
GoodEnv ==
    [file |-> "ok", argDir |-> None, cfgDir |-> Some("/cfg"),
     dirs |-> {"/cfg"}, sinks |-> [s \in Sinks |-> "Localhost"],
     reachable |-> SyslogKinds, bindOk |-> TRUE, procOk |-> TRUE]

\* the binary has started and run has reached its main loop
BootDone ==
    /\ env = GoodEnv
    /\ ingester = "up"
    /\ backlog = <<>>
    /\ boot = BootRecord("loop", None, Some("/cfg"), GoodEnv.sinks, NumSinks,
                         TRUE, None)

NoIdentity == [name |-> None, uuid |-> None]
TwoNames == << <<"alpha">>, <<"beta">> >>

\* the data directory as shipped: names.txt, and no name_tuple.yaml yet
IdentityIdle ==
    /\ idConfig = NoIdentity
    /\ tupleFile = None
    /\ namesFile = Some(TwoNames)
    /\ idRuns = <<>>
    /\ v4Drawn = 0

ProcIdle ==
    /\ procRow = SocketConnection(Localhost, 0, Localhost, 0, 0, 0)
    /\ procLine = ""
    /\ procParsed = None

\* ------------------------------------------------------- outputs::server
BaseUrl == "http://server"
open_url == BaseUrl \o "/connections/open"
close_url == BaseUrl \o "/connections/close"
open_connection_url == BaseUrl \o "/agents/online"
interface_url(uuid) == BaseUrl \o "/agents/" \o ToString(uuid) \o "/interfaces"

\* what becomes of a request: answered 200, answered with another status,
\* or send() returns Err
Replies == {"200", "500", "refused"}

\* fn post: Ok(()) only for StatusCode::OK
post(reply) == IF reply = "200" THEN "Ok" ELSE "Err"

\* one request as the history keeps it
Post(by, url, body, reply) ==
    [by |-> by, url |-> url, body |-> body, ok |-> post(reply) = "Ok"]

\* the strings the main loop may hand to an output
ServerMessages == {"a", "b"}

\* variant: every message goes to the open URL
send_connection_AlwaysOpen(message) == [url |-> open_url, body |-> message.text]

\* fn send_connection: the URL by the variant of MessageType
send_connection(message) ==
    [url |-> IF message.type = "Open" THEN open_url ELSE close_url,
     body |-> message.text]

\* variant: the report is scheduled before the online message is posted
ServerNewResult_TimerFirst(uuid, reply) ==
    [pc |-> IF post(reply) = "Err" THEN "failed" ELSE "up",
     timer |-> IF uuid = None THEN None ELSE Some(interface_url(Unwrap(uuid))),
     worker |-> IF post(reply) = "Err" THEN "none" ELSE "up"]

\* Server::new after open_connection: `Err(err) => return Err(err)`, else the
\* guard (only with a uuid) and the worker thread
ServerNewResult(uuid, reply) ==
    IF post(reply) = "Err"
    THEN [pc |-> "failed", timer |-> None, worker |-> "none"]
    ELSE [pc |-> "up",
          timer |-> IF uuid = None THEN None
                    ELSE Some(interface_url(Unwrap(uuid))),
          worker |-> "up"]

ServerNew(uuid, reply) ==
    /\ srvPc = "new"
    /\ posts' = Append(posts, Post("new", open_connection_url, "online", reply))
    /\ srvPc' = ServerNewResult(uuid, reply).pc
    /\ srvTimer' = ServerNewResult(uuid, reply).timer
    /\ srvWorker' = ServerNewResult(uuid, reply).worker
    /\ UNCHANGED <<filterVars, stateVars, runVars, sinkVars, bootVars, idVars,
                   procVars, chomperVars, srvq, srvSent>>

\* self.tx.send(..) with its result discarded: the message is queued while
\* the worker's Receiver lives, and is gone otherwise
Enqueue(type, message) ==
    /\ srvPc = "up"
    /\ Len(srvSent) < MaxCalls
    /\ srvSent' = Append(srvSent, [type |-> type, text |-> message,
                                   queued |-> srvWorker = "up"])
    /\ srvq' = IF srvWorker = "up"
               THEN Append(srvq, [type |-> type, text |-> message])
               ELSE srvq
    /\ UNCHANGED <<filterVars, stateVars, runVars, sinkVars, bootVars, idVars,
                   procVars, chomperVars, srvPc, srvTimer, srvWorker, posts>>

process_open_connection(message) == Enqueue("Open", message)

process_close_connection(message) == Enqueue("Close", message)

\* one turn of the worker's loop: recv, send_connection, which logs the
\* outcome of post and returns
ServerWorker(reply) ==
    /\ srvWorker = "up"
    /\ srvq # <<>>
    /\ Len(posts) < MaxPosts
    /\ posts' = Append(posts, Post("worker", send_connection(Head(srvq)).url,
                                   send_connection(Head(srvq)).body, reply))
    /\ srvq' = Tail(srvq)
    /\ UNCHANGED <<filterVars, stateVars, runVars, sinkVars, bootVars, idVars,
                   procVars, chomperVars, srvPc, srvTimer, srvWorker, srvSent>>

\* the worker thread ends by a panic under its post call; its Receiver and
\* what is queued go with it
ServerWorkerPanic ==
    /\ srvWorker = "up"
    /\ srvq # <<>>
    /\ srvWorker' = "dead"
    /\ srvq' = <<>>
    /\ UNCHANGED <<filterVars, stateVars, runVars, sinkVars, bootVars, idVars,
                   procVars, chomperVars, srvPc, srvTimer, srvSent, posts>>

\* variant: a report that fails is not repeated
AfterReport_Cancel(timer, reply) == IF post(reply) = "Ok" THEN timer ELSE None

\* the closure of create_interface_scheduled_call logs either outcome of
\* send_interfaces; the guard is untouched
AfterReport(timer, reply) == timer

\* the timer fires the repeating report
InterfaceReport(reply) ==
    /\ srvTimer # None
    /\ Len(posts) < MaxPosts
    /\ posts' = Append(posts, Post("timer", Unwrap(srvTimer), "interfaces",
                                   reply))
    /\ srvTimer' = AfterReport(srvTimer, reply)
    /\ UNCHANGED <<filterVars, stateVars, runVars, sinkVars, bootVars, idVars,
                   procVars, chomperVars, srvPc, srvWorker, srvq, srvSent>>

\* the Server is dropped with the NoTrack value: tx closes, the Timer and
\* the guard go
ServerDrop ==
    /\ srvPc = "up"
    /\ srvPc' = "dropped"
    /\ srvTimer' = None
    /\ UNCHANGED <<filterVars, stateVars, runVars, sinkVars, bootVars, idVars,
                   procVars, chomperVars, srvWorker, srvq, srvSent, posts>>

\* rx.recv() returns Err in the worker: error!("closing thread"), break
ServerWorkerClosed ==
    /\ srvWorker = "up"
    /\ srvPc = "dropped"
    /\ srvq = <<>>
    /\ srvWorker' = "closed"
    /\ UNCHANGED <<filterVars, stateVars, runVars, sinkVars, bootVars, idVars,
                   procVars, chomperVars, srvPc, srvTimer, srvq, srvSent, posts>>

\* no tracking-server output is configured
ServerIdle ==
    /\ srvPc = "none"
    /\ srvTimer = None
    /\ srvWorker = "none"
    /\ srvq = <<>>
    /\ srvSent = <<>>
    /\ posts = <<>>

\* an empty socket table (its header only); ProcChomper::new has run
NoSockets == Some(<<TableHeader>>)

ChomperIdle ==
    /\ netFile = [p \in TableProtocols |-> NoSockets]
    /\ chomperMap = [p \in TableProtocols |-> <<>>]
    /\ lastUpdate = None
    /\ lastPass = None

Init ==
    /\ PipelineInit(FiltersConfigs, AllHashes)
    /\ BootDone
    /\ IdentityIdle
    /\ ProcIdle
    /\ ChomperIdle
    /\ ServerIdle

\* the agent: ingester thread and main loop
Next ==
    \/ \E con \in WireEvents : Receive(con)
    \/ RecvNonIp
    \/ RecvIp
    \/ \E row \in SocketRows : LookupRetry(row)
    \/ \E found \in {None} \cup {Some(r) : r \in SocketRows},
          process \in {None} \cup {Some(p) : p \in Pids} :
            LookupFinish(found, process)
    \/ \E found \in SocketRows : CmdlinePanic(found)

Spec == Init /\ [][Next]_vars

\* a Filter driven directly, one apply call after another
FilterNext == \E payload \in FilterPayloads : ApplyCall(payload)

\* Filter::new(config) for each config, as the tests of filters/mod.rs do
FilterInit ==
    /\ PipelineInit(FiltersConfigs, TestHashes)
    /\ BootDone
    /\ IdentityIdle
    /\ ProcIdle
    /\ ChomperIdle
    /\ ServerIdle

FilterSpec == FilterInit /\ [][FilterNext]_vars

\* a State driven directly, one transform call after another
StateNext == \E payload \in StatePayloads : TransformCall(payload)

\* State::new(), as the tests of state/mod.rs do
StateInit ==
    /\ PipelineInit({DefaultFilters}, TestHashes)
    /\ BootDone
    /\ IdentityIdle
    /\ ProcIdle
    /\ ChomperIdle
    /\ ServerIdle

StateSpec == StateInit /\ [][StateNext]_vars

\* the main loop with its sink workers, on a machine whose socket table and
\* procfs never know the flow
SinkEvents ==
    {Connection(st, pd) : st \in {"New", "Destroy"},
        pd \in {d \in ProtoDetails : d.variant = "IP" /\ d.protocol = "TCP"}}

SinkInit ==
    /\ PipelineInit({c \in FiltersConfigs : ~c.dns_requests
                                            /\ ~c.notrust_track_connections},
                    AllHashes)
    /\ BootDone
    /\ IdentityIdle
    /\ ProcIdle
    /\ ChomperIdle
    /\ ServerIdle

SinkNext ==
    \/ \E con \in SinkEvents : Receive(con)
    \/ RecvIp
    \/ LookupFinish(None, None)
    \/ \E s \in Sinks : WorkerRecv(s)
    \/ \E s \in Sinks : WorkerExit(s)

SinkSpec == SinkInit /\ [][SinkNext]_vars

\* populate_config called again and again on one data directory
IdConfigs ==
    [name : {None, Some(<<"cfg-name">>)}, uuid : {None, Some("uuid-cfg")}]
TupleFiles ==
    {None, Some(<< <<"not", "yaml">> >>)}
    \cup {Some(ToYaml([name |-> n, uuid |-> u])) :
            n \in {None, Some(<<"file-name">>)},
            u \in {None, Some("uuid-file")}}
NamesFiles == {None, Some(<<>>), Some(TwoNames)}

IdentityInit ==
    /\ PipelineInit({DefaultFilters}, AllHashes)
    /\ BootDone
    /\ idConfig \in IdConfigs
    /\ tupleFile \in TupleFiles
    /\ namesFile \in NamesFiles
    /\ idRuns = <<>>
    /\ v4Drawn = 0
    /\ ProcIdle
    /\ ChomperIdle
    /\ ServerIdle

IdentityNext ==
    \E pick \in Picks(load_names(namesFile)) : PopulateConfig(pick)

IdentitySpec == IdentityInit /\ [][IdentityNext]_vars

\* one start of the binary, from main to exit
BootStart == BootRecord("main", None, None, <<>>, 0, FALSE, None)

StartInit ==
    /\ PipelineInit({DefaultFilters}, AllHashes)
    /\ env \in Envs
    /\ boot = BootStart
    /\ ingester = "idle"
    /\ backlog = <<>>
    /\ IdentityIdle
    /\ ProcIdle
    /\ ChomperIdle
    /\ ServerIdle

StartNext ==
    \/ \E pick \in Picks(load_names(namesFile)) : StartFromFile(pick)
    \/ StartRun
    \/ IngesterFail
    \/ StartShutdown
    \/ MainReturn

StartSpec == StartInit /\ [][StartNext]_vars

\* rows of /proc/net/tcp handed to parse_connection
ProcInit ==
    /\ PipelineInit({DefaultFilters}, AllHashes)
    /\ BootDone
    /\ IdentityIdle
    /\ procRow \in KernelRows
    /\ procLine = RowText(procRow)
    /\ procParsed = None
    /\ ChomperIdle
    /\ ServerIdle

ProcNext == ParseConnection

ProcSpec == ProcInit /\ [][ProcNext]_vars

\* the sink workers from the start of the main loop to the end of main,
\* their writes or posts failing now and then
AllOff ==
    [non_process_connections |-> FALSE, dns_requests |-> FALSE,
     notrust_track_connections |-> FALSE]

\* the kernel reports new TCP flows only
WorkerEvents == {con \in SinkEvents : con.state = "New"}

WorkerInit ==
    /\ PipelineInit({AllOff}, AllHashes)
    /\ BootDone
    /\ IdentityIdle
    /\ ProcIdle
    /\ ChomperIdle
    /\ ServerIdle

WorkerNext ==
    \/ \E con \in WorkerEvents : Receive(con)
    \/ RecvIp
    \/ LookupFinish(None, None)
    \/ \E s \in Sinks : WorkerRecv(s)
    \/ \E s \in Sinks : WorkerFail(s)
    \/ IngesterFail
    \/ StartShutdown
    \/ MainReturn
    \/ \E s \in Sinks : WorkerClosed(s)

WorkerSpec == WorkerInit /\ [][WorkerNext]_vars

\* one tracking-server output from its construction to its drop, handed
\* messages as the main loop hands them
ServerUuids == {None, Some(1)}

ServerInit ==
    /\ PipelineInit({AllOff}, AllHashes)
    /\ BootDone
    /\ IdentityIdle
    /\ ProcIdle
    /\ ChomperIdle
    /\ srvPc = "new"
    /\ srvTimer = None
    /\ srvWorker = "none"
    /\ srvq = <<>>
    /\ srvSent = <<>>
    /\ posts = <<>>

ServerNext ==
    \/ \E uuid \in ServerUuids, reply \in Replies : ServerNew(uuid, reply)
    \/ \E message \in ServerMessages : process_open_connection(message)
    \/ \E message \in ServerMessages : process_close_connection(message)
    \/ \E reply \in Replies : ServerWorker(reply)
    \/ \E reply \in Replies : InterfaceReport(reply)
    \/ ServerWorkerPanic
    \/ ServerDrop
    \/ ServerWorkerClosed

ServerSpec == ServerInit /\ [][ServerNext]_vars

\* a ProcChomper driven directly while the kernel's table changes
ChomperLines ==
    NoColonRows \cup {RowText(row) : row \in SharedRemoteRows}

RECURSIVE LinesUpTo(_)
LinesUpTo(n) ==
    IF n = 0 THEN {<<>>}
    ELSE LinesUpTo(n - 1)
         \cup {Append(f, l) : f \in LinesUpTo(n - 1), l \in ChomperLines}

ChomperFiles ==
    {None} \cup {Some(<<TableHeader>> \o f) : f \in LinesUpTo(MaxRows)}

ChomperInit ==
    /\ PipelineInit({DefaultFilters}, AllHashes)
    /\ BootDone
    /\ IdentityIdle
    /\ ProcIdle
    /\ ChomperIdle
    /\ ServerIdle

ChomperNext ==
    \/ \E file \in ChomperFiles : KernelWrite("TCP", file)
    \/ \E protocol \in TableProtocols : ChomperUpdate(protocol)

ChomperSpec == ChomperInit /\ [][ChomperNext]_vars

\* the main loop on a machine whose TCP socket table changes under it
ParserEvents ==
    {Connection(st, pd) : st \in States,
        pd \in {d \in ProtoDetails : d.variant = "IP" /\ d.protocol = "TCP"}}

ParserFiles ==
    {None, NoSockets, Some(<<TableHeader, BadRow>>)}
    \cup {Some(<<TableHeader, RowText(row)>>) : row \in ParserRows}

ParserInit ==
    /\ PipelineInit({DefaultFilters}, AllHashes)
    /\ BootDone
    /\ IdentityIdle
    /\ ProcIdle
    /\ ChomperIdle
    /\ ServerIdle

ParserNext ==
    \/ \E con \in ParserEvents : Receive(con)
    \/ RecvIp
    \/ \E file \in ParserFiles : KernelWrite("TCP", file)
    \/ TableRetry(PassLook)
    \/ \E process \in {None} \cup {Some(p) : p \in Pids} :
          TableFinish(PassLook, process)
    \/ \E process \in Pids : TablePanic(PassLook, process)
    \/ TableUpdatePanic(PassLook)

ParserSpec == ParserInit /\ [][ParserNext]_vars

\* the main loop on a changing socket table, scheduled fairly: the thread
\* that runs the loop takes its next step whenever it has one; nothing is
\* assumed of the kernel's table or of the ingester's events
LiveFiles ==
    {NoSockets}
    \cup {Some(<<TableHeader, RowText(row)>>) :
            row \in {r \in ParserRows : r.inode # U32_MAX}}

LoopStep ==
    \/ RecvIp
    \/ TableRetry(PassLook)
    \/ \E process \in {None} \cup {Some(p) : p \in Pids} :
          TableFinish(PassLook, process)

LiveNext ==
    \/ \E con \in ParserEvents : Receive(con)
    \/ \E file \in LiveFiles : KernelWrite("TCP", file)
    \/ LoopStep

LiveSpec == ParserInit /\ [][LiveNext]_vars /\ WF_vars(LoopStep)


\* =================================================================== claims
ApplyDone == IsSome(lastApply)
LA == Unwrap(lastApply)
AppliedOpen == ApplyDone /\ LA.payload.kind = "Open"
AppliedClose == ApplyDone /\ LA.payload.kind = "Close"

\* C1 (as stated): whenever a Close with hash H is applied after an Open with
\* hash H was dropped (and no other Close with H came in between), the Close
\* is dropped and the dropped-hash set then has the size it had before that
\* Open (the first such Open, if several were dropped) was applied.
C1_SizeRestored ==
    (AppliedClose /\ LA.wasPending) =>
        /\ LA.ret
        /\ Cardinality(filtered) = Unwrap(LA.preDrop)

\* C1 (amended): the next Close with hash H after a dropped Open with hash H
\* is dropped, and it removes H and nothing else from the dropped-hash set:
\* the set is one element smaller than just before that Close.
C1_CloseOfDroppedOpenDropped ==
    (AppliedClose /\ LA.wasPending) =>
        /\ LA.ret
        /\ LA.payload.hash \in LA.pre
        /\ filtered = LA.pre \ {LA.payload.hash}
        /\ Cardinality(filtered) = Cardinality(LA.pre) - 1

\* C1 witness: a Close has just been applied whose Open had been dropped while
\* another hash was (and still is) in the set.
C1_Witness ==
    /\ AppliedClose
    /\ LA.wasPending
    /\ LA.ret
    /\ filtered # {}


\* C2 (as stated): a Close with hash H that is transformed carries, on
\* output, the uuid U of every Open with hash H transformed before it.
C2_UuidOfAnyEarlierOpen ==
    (IsSome(lastTransform) /\ Unwrap(lastTransform).input.kind = "Close") =>
        \A u \in Unwrap(lastTransform).everOpened :
            Unwrap(lastTransform).output.uuid = Some(u)

\* C2 (amended): a Close with hash H carries, on output, the uuid of the
\* most recent Open with hash H transformed before it, provided no other
\* Close with hash H was transformed after that Open.
C2_UuidOfLatestOpen ==
    (/\ IsSome(lastTransform)
     /\ Unwrap(lastTransform).input.kind = "Close"
     /\ IsSome(Unwrap(lastTransform).awaited)) =>
        Unwrap(lastTransform).output.uuid = Unwrap(lastTransform).awaited

\* C2 witness: a Close came out with the uuid of the second of two Opens of
\* its hash.
C2_Witness ==
    /\ IsSome(lastTransform)
    /\ Unwrap(lastTransform).input.kind = "Close"
    /\ IsSome(Unwrap(lastTransform).awaited)
    /\ Cardinality(Unwrap(lastTransform).everOpened) = 2
    /\ Unwrap(lastTransform).output.uuid = Unwrap(lastTransform).awaited

\* C3: a Close transformed while the map has no entry for its hash (no Open
\* with that hash since the start or since the last Close with that hash)
\* comes out with uuid = none.
C3_NoEntryNoUuid ==
    (/\ IsSome(lastTransform)
     /\ Unwrap(lastTransform).input.kind = "Close"
     /\ \/ ~Unwrap(lastTransform).hadEntry
        \/ IsNone(Unwrap(lastTransform).awaited)) =>
        /\ Unwrap(lastTransform).output.uuid = None
        /\ Unwrap(lastTransform).input.hash \notin DOMAIN connections

\* C3 witness: the second of two Closes after an Open came out without uuid.
C3_Witness ==
    /\ IsSome(lastTransform)
    /\ Unwrap(lastTransform).input.kind = "Close"
    /\ Unwrap(lastTransform).everOpened # {}
    /\ IsNone(Unwrap(lastTransform).awaited)
    /\ Unwrap(lastTransform).output.uuid = None

\* C4 (as stated): every Close the filter lets through was preceded by an
\* Open with the same hash that the filter let through.
C4_PassedCloseHadPassedOpen ==
    (AppliedClose /\ ~LA.ret) => LA.hadPassed

\* C4 (amended): every Close the filter lets through has a hash of which no
\* Open was dropped since the previous Close with that hash: the filter never
\* lets through the Close that follows an Open it dropped.
C4_PassedCloseHadNoDroppedOpen ==
    (AppliedClose /\ ~LA.ret) => (~LA.wasPending /\ LA.payload.hash \notin LA.pre)

\* C4 witness: a Close was let through after an Open with its hash had been
\* let through, while the filter remembers another hash.
C4_Witness ==
    /\ AppliedClose
    /\ ~LA.ret
    /\ LA.hadPassed
    /\ filtered # {}

\* C5: a Close whose hash is not in the dropped-hash set is let through and
\* leaves the set unchanged; so is the second Close after a dropped Open and
\* a dropped Close with the same hash.
C5_AbsentClosePasses ==
    /\ (AppliedClose /\ LA.payload.hash \notin LA.pre) =>
            (~LA.ret /\ filtered = LA.pre)
    /\ (AppliedClose /\ LA.afterClosedDrop) =>
            (~LA.ret /\ filtered = LA.pre)

\* C5 witness: the second Close after a dropped Close has been let through.
C5_Witness ==
    /\ AppliedClose
    /\ LA.afterClosedDrop
    /\ ~LA.ret

HasProgram(p) == p.program_details # <<>>
PidOf(p) == p.program_details[1].pid
DnsBound(p) == p.destination_port \in {53, 5353}

\* C6: with non_process_connections on, every Open without program is
\* dropped and its hash remembered; with the option off, an Open without
\* program is let through unless dns_requests drops it.
C6_NonProcess ==
    /\ (AppliedOpen /\ config.non_process_connections
            /\ ~HasProgram(LA.payload)) =>
            (LA.ret /\ LA.payload.hash \in filtered)
    /\ (AppliedOpen /\ ~config.non_process_connections
            /\ ~HasProgram(LA.payload)
            /\ ~(config.dns_requests /\ DnsBound(LA.payload))) =>
            (~LA.ret /\ filtered = LA.pre)

\* C6 witness: an Open without program, not bound for a DNS port, has been
\* dropped.
C6_Witness ==
    /\ AppliedOpen
    /\ config.non_process_connections
    /\ ~HasProgram(LA.payload)
    /\ ~DnsBound(LA.payload)
    /\ LA.ret
    /\ LA.payload.hash \notin LA.pre

\* C7: with dns_requests on, every Open to destination port 53 or 5353 is
\* dropped and its hash remembered, with or without program and whatever the
\* source port; with the option off, an Open is dropped only because it has
\* no program or because it is the agent's own.
C7_Dns ==
    /\ (AppliedOpen /\ config.dns_requests /\ DnsBound(LA.payload)) =>
            (LA.ret /\ LA.payload.hash \in filtered)
    /\ (AppliedOpen /\ ~config.dns_requests /\ LA.ret) =>
            \/ config.non_process_connections /\ ~HasProgram(LA.payload)
            \/ /\ config.notrust_track_connections
               /\ HasProgram(LA.payload)
               /\ PidOf(LA.payload) = OwnPid

\* C7 witness: an Open of a foreign program to port 5353, source port 0, has
\* been dropped.
C7_Witness ==
    /\ AppliedOpen
    /\ config.dns_requests
    /\ LA.payload.destination_port = 5353
    /\ LA.payload.source_port = 0
    /\ HasProgram(LA.payload)
    /\ PidOf(LA.payload) # OwnPid
    /\ LA.ret

\* C8: with notrust_track_connections on, every Open whose program has the
\* agent's pid is dropped and its hash remembered; with the option off, such
\* an Open is let through unless dns_requests drops it.
C8_SelfDrop ==
    /\ (AppliedOpen /\ config.notrust_track_connections
            /\ HasProgram(LA.payload) /\ PidOf(LA.payload) = OwnPid) =>
            (LA.ret /\ LA.payload.hash \in filtered)
    /\ (AppliedOpen /\ ~config.notrust_track_connections
            /\ HasProgram(LA.payload) /\ PidOf(LA.payload) = OwnPid
            /\ ~(config.dns_requests /\ DnsBound(LA.payload))) =>
            (~LA.ret /\ filtered = LA.pre)

\* C8 witness: an Open of the agent's own process, not bound for a DNS port,
\* has been dropped.
C8_Witness ==
    /\ AppliedOpen
    /\ config.notrust_track_connections
    /\ HasProgram(LA.payload)
    /\ PidOf(LA.payload) = OwnPid
    /\ ~DnsBound(LA.payload)
    /\ LA.ret

\* C9: an Open is dropped exactly when an enabled option matches it; an Open
\* that no enabled option matches is let through and leaves the dropped-hash
\* set unchanged, and a dropped one adds its hash and nothing else.
C9_DropIffOptionMatches ==
    AppliedOpen =>
        /\ LA.ret <=>
            \/ config.non_process_connections /\ ~HasProgram(LA.payload)
            \/ /\ config.notrust_track_connections
               /\ HasProgram(LA.payload)
               /\ PidOf(LA.payload) = OwnPid
            \/ config.dns_requests /\ DnsBound(LA.payload)
        /\ ~LA.ret => filtered = LA.pre
        /\ LA.ret => filtered = LA.pre \cup {LA.payload.hash}

\* C9 witness: with all three options on, an Open of a foreign program to a
\* non-DNS port has been let through while the set was not empty.
C9_Witness ==
    /\ AppliedOpen
    /\ config.non_process_connections
    /\ config.notrust_track_connections
    /\ config.dns_requests
    /\ ~LA.ret
    /\ filtered # {}

\* C10: when the main loop takes an ICMP or NotSupported event from the
\* channel, whatever its state, Parser::parse gives no payload and the
\* iteration ends there: the dropped-hash set, the correlation map and every
\* sink queue are left as they were.
C10_ProtocolFilter ==
    [][(/\ pc = "recv"
        /\ rx # <<>>
        /\ rx' = Tail(rx)
        /\ Head(rx).details.protocol.variant \in {"ICMP", "NotSupported"}) =>
       (/\ pc' = "recv"
        /\ lastEvent' = <<[con |-> Head(rx), parsed |-> <<>>,
                           dropped |-> FALSE]>>
        /\ filtered' = filtered
        /\ connections' = connections
        /\ outq' = outq)]_vars

\* C10 witness: an ICMP event in state New has been handled while the filter
\* and the correlator both hold entries.
C10_Witness ==
    /\ IsSome(lastEvent)
    /\ Unwrap(lastEvent).con.details.protocol.variant = "ICMP"
    /\ Unwrap(lastEvent).con.state = "New"
    /\ IsNone(Unwrap(lastEvent).parsed)
    /\ filtered # {}
    /\ DOMAIN connections # {}

\* the payloads the run has produced and still shows: every message offered
\* to a sink, and the payload of the latest Filter::apply call
FiveTuple(m) ==
    <<m.protocol, m.source, m.source_port, m.destination, m.destination_port>>
SeenPayloads ==
    UNION {{outq[s][i].message : i \in 1..Len(outq[s])} : s \in Sinks}
    \cup (IF IsSome(lastApply) THEN {ToJson(LA.payload)} ELSE {})

\* C11: two payloads with the same (protocol, source IP, source port,
\* destination IP, destination port) carry the same hash, whatever the event
\* state, the socket-table row, the resolved user and program and the uuid;
\* so the Open and the Close of one 5-tuple carry equal hashes.
C11_FingerprintStable ==
    \A p, q \in SeenPayloads :
        FiveTuple(p) = FiveTuple(q) => p.hash = q.hash

\* C11 witness: a sink queue holds an Open with a resolved program and user
\* and, behind it, a Close of the same 5-tuple, both with the same hash, and
\* an Open of that 5-tuple with no program and no user.
C11_Witness ==
    \E i, j, k \in 1..Len(outq[1]) :
        /\ i < j
        /\ outq[1][i].method = "open"
        /\ outq[1][i].message.program_details # <<>>
        /\ outq[1][i].message.username = "alice"
        /\ outq[1][j].method = "close"
        /\ outq[1][k].method = "open"
        /\ outq[1][k].message.program_details = <<>>
        /\ outq[1][k].message.username = ""
        /\ FiveTuple(outq[1][i].message) = FiveTuple(outq[1][j].message)
        /\ FiveTuple(outq[1][i].message) = FiveTuple(outq[1][k].message)
        /\ outq[1][i].message.hash = outq[1][j].message.hash
        /\ outq[1][i].message.hash = outq[1][k].message.hash

Resolved(r) == [name |-> r.name, uuid |-> r.uuid]

\* C12 (as stated): two calls of populate_config in a row, on the same data
\* directory and with the same config, return the same (name, uuid).
C12_Idempotent ==
    Len(idRuns) >= 2 => Resolved(idRuns[2]) = Resolved(idRuns[1])

\* C13: each call of populate_config returns a config with name and uuid
\* both set; each of the two is the config's when the config sets it,
\* otherwise the one name_tuple.yaml holds when it holds one, otherwise a
\* uuid not seen before, and a line of names.txt as it was read (the
\* literal "unknown" when it has no line).
C13_Priority ==
    \A k \in 1..Len(idRuns) :
        LET r == idRuns[k]
        IN  /\ IsSome(r.name) /\ IsSome(r.uuid)
            /\ IF IsSome(r.config.uuid) THEN r.uuid = r.config.uuid
               ELSE IF IsSome(r.tuple.uuid) THEN r.uuid = r.tuple.uuid
               ELSE /\ Unwrap(r.uuid) \notin {"uuid-cfg", "uuid-file"}
                    /\ \A j \in 1..(k - 1) : idRuns[j].uuid # r.uuid
            /\ IF IsSome(r.config.name) THEN r.name = r.config.name
               ELSE IF IsSome(r.tuple.name) THEN r.name = r.tuple.name
               ELSE IF r.names = <<>> THEN r.name = <<<<"unknown">>>>
               ELSE \E i \in 1..Len(r.names) : r.name = <<r.names[i]>>

\* C13 witness: the config sets the name only and name_tuple.yaml holds a
\* name and a uuid: the call returned the config's name with the file's
\* uuid.
C13_Witness ==
    /\ idRuns # <<>>
    /\ idRuns[1].config = [name |-> <<<<"cfg-name">>>>, uuid |-> <<>>]
    /\ idRuns[1].tuple = [name |-> <<<<"file-name">>>>, uuid |-> <<"uuid-file">>]
    /\ idRuns[1].name = <<<<"cfg-name">>>>
    /\ idRuns[1].uuid = <<"uuid-file">>

\* C14 (as stated): after populate_config has returned, name_tuple.yaml
\* holds the (name, uuid) it returned: loading the file gives that identity.
C14_TupleFileRewritten ==
    idRuns # <<>> =>
        load_uuid_name_tuple(tupleFile) = Resolved(idRuns[Len(idRuns)])

ChosenDir == IF env.argDir # <<>> THEN env.argDir ELSE env.cfgDir
DirProblem ==
    \/ env.file = "garbage"
    \/ env.file = "ok" /\ (ChosenDir = <<>> \/ ChosenDir[1] \notin env.dirs)

\* C15: from_str takes the data_directory argument when there is one and
\* the config's directory otherwise; when the config does not parse, when
\* neither names a directory, or when the chosen one does not exist, it
\* returns the matching error and no output and no filter is constructed.
C15_FromStr ==
    boot.pc # "main" =>
        /\ DirProblem =>
            /\ boot.err =
                 IF env.file = "garbage" THEN <<"unable to parse config">>
                 ELSE IF ChosenDir = <<>>
                 THEN <<"no data directory defined">>
                 ELSE <<"data directory defined, does not exist">>
            /\ boot.outputs = <<>>
            /\ boot.spawned = 0
            /\ ~boot.filterBuilt
        /\ boot.filterBuilt => boot.directory = ChosenDir

\* C15 witness: the argument names a directory that does not exist while
\* the config names one that does, and the config lists outputs that could
\* all start: from_str has failed and nothing was constructed.
C15_Witness ==
    /\ boot.pc = "failed"
    /\ env.file = "ok"
    /\ env.argDir = <<"/arg">>
    /\ env.cfgDir = <<"/cfg">>
    /\ env.dirs = {"/cfg"}
    /\ env.sinks # <<>>
    /\ env.reachable = {"Localhost", "TCP", "UDP"}
    /\ boot.err = <<"data directory defined, does not exist">>
    /\ boot.spawned = 0

\* C16 (as stated): the process exits with 0 after a clean shutdown and with
\* a nonzero code after every startup failure.
C16_ExitCodes ==
    boot.pc = "exited" =>
        /\ boot.err = <<>> => boot.exit = <<0>>
        /\ boot.err # <<>> => boot.exit # <<0>>

FailingSinks == {i \in 1..Len(env.sinks) : env.sinks[i] \notin env.reachable}
FirstFailing == CHOOSE i \in FailingSinks : \A j \in FailingSinks : i <= j

\* C17: once from_str has accepted config and directory, a configured
\* output that cannot start makes create, and with it NoTrack::new, fail
\* with that output's error, wherever it stands in the list and although
\* the outputs before it have started; no filter is built and run is never
\* entered. When every configured output starts, all of them are kept.
C17_SinkInitFatal ==
    (boot.pc # "main" /\ env.file = "ok" /\ ~DirProblem) =>
        /\ FailingSinks # {} =>
            /\ boot.pc \in {"failed", "exited"}
            /\ boot.err =
                 IF env.sinks[FirstFailing] = "Localhost"
                 THEN <<"unable to start localhost syslog">>
                 ELSE IF env.sinks[FirstFailing] = "TCP"
                 THEN <<"unable to start TCP syslog sender">>
                 ELSE <<"unable to start UDP syslog sender">>
            /\ boot.outputs = <<>>
            /\ boot.spawned = FirstFailing - 1
            /\ ~boot.filterBuilt
            /\ idRuns = <<>>
        /\ FailingSinks = {} =>
            /\ boot.outputs = env.sinks
            /\ boot.filterBuilt

\* C17 witness: the first configured output has started and the last one
\* could not: the start has failed.
C17_Witness ==
    /\ boot.pc = "exited"
    /\ env.file = "ok"
    /\ ~DirProblem
    /\ Len(env.sinks) >= 2
    /\ FailingSinks = {Len(env.sinks)}
    /\ boot.spawned = Len(env.sinks) - 1
    /\ boot.err # <<>>
    /\ boot.outputs = <<>>

\* C18: parse_connection gives back the socket the kernel printed: the
\* address whose octets are the bytes of the eight hex digits in reversed
\* order, the port the four hex digits denote, the uid of column 7 and the
\* inode of column 9; "669010AC:0016" is 172.16.144.102 port 22.
C18_AddressDecoding ==
    /\ parse_connection(TestRow) =
        [panicked |-> FALSE,
         value |-> <<[local_address |-> <<172, 16, 144, 102>>,
                      local_port |-> 22,
                      remote_address |-> <<172, 16, 144, 1>>,
                      remote_port |-> 54645, uid |-> 0,
                      inode |-> 1227937]>>]
    /\ procParsed # <<>> =>
        /\ ~procParsed[1].panicked
        /\ procParsed[1].value = <<procRow>>

\* C18 witness: a row whose local token is "669010AC:0035", with uid 1000,
\* has been parsed to 172.16.144.102 port 53.
C18_Witness ==
    /\ procParsed # <<>>
    /\ procRow.local_address = <<172, 16, 144, 102>>
    /\ procRow.local_port = 53
    /\ procRow.uid = 1000
    /\ procRow.inode = 1227937
    /\ procParsed[1].value = <<procRow>>
    /\ \E i \in 1..Len(procLine) : SubSeq(procLine, i, i + 12) = "669010AC:0035"

IsPrefix(a, b) == Len(a) <= Len(b) /\ a = SubSeq(b, 1, Len(a))

\* C19: what a sink worker has handled is, message by message, the start
\* of what the main loop has sent, in the order it took the events from the
\* channel: no worker handles a message before one sent earlier, so none
\* handles the Close of a hash before the Open sent before it.
C19_SinkFifo ==
    \A s \in Sinks :
        /\ IsPrefix(handled[s], offered)
        /\ \A j \in 1..Len(handled[s]) : \A i \in 1..Len(offered) :
              (/\ i < Len(offered)
               /\ offered[i].method = "open"
               /\ handled[s][j] = offered[i + 1]
               /\ offered[i + 1].method = "close"
               /\ offered[i + 1].message.hash = offered[i].message.hash)
              => (j > 1 /\ handled[s][j - 1] = offered[i])

\* C19 witness: one worker has handled an Open and then the Close of the
\* same hash, which carries the Open's uuid, while the other worker still
\* has both in its queue.
C19_Witness ==
    /\ Len(handled[1]) = 2
    /\ handled[1][1].method = "open"
    /\ handled[1][2].method = "close"
    /\ handled[1][1].message.hash = handled[1][2].message.hash
    /\ handled[1][2].message.uuid = <<handled[1][1].message.uuid>>
    /\ handled[2] = <<>>
    /\ Len(outq[2]) = 2

\* C20: the main loop is never held up by a sink: when it has an event to
\* finish it can finish it, whatever the queues hold and whichever workers
\* live. A sink whose worker lives has got every message sent, handled or
\* queued, whatever the other workers do; a worker that has ended has lost
\* what was in its own queue and what was sent after, and nothing else.
C20_SinkIsolation ==
    /\ pc = "lookup" => ENABLED LookupFinish(None, None)
    /\ \A s \in Sinks :
          /\ workerUp[s] => handled[s] \o outq[s] = offered
          /\ ~workerUp[s] => (outq[s] = <<>> /\ IsPrefix(handled[s], offered))

\* C20 witness: the first worker ended before it handled anything, the main
\* loop has since sent two messages and has no event waiting, and the other
\* worker has handled both.
C20_Witness ==
    /\ ~workerUp[1]
    /\ handled[1] = <<>>
    /\ workerUp[2]
    /\ Len(offered) >= 2
    /\ handled[2] = offered
    /\ pc = "recv"
    /\ rx = <<>>

\* the pass record of the parse_ip_connection call that is running, or
\* that returned last with no later call begun
PassNow == IsSome(lastPass) /\ Unwrap(lastPass).seq = received - Len(rx)

\* the socket table as built from the file that pass read
FreshFind(pass) ==
    find(update(<<>>, pass.file).map, pass.con.details.source,
         pass.con.details.protocol.source_port)

\* proc.get(inode) turned into Option<Program>
ResolvedProgram(pass) ==
    IF IsSome(pass.owner)
    THEN Some(Program(Unwrap(pass.found).inode, Unwrap(pass.owner)))
    ELSE None

\* C21: each lookup sees the socket table as refreshed from the file just
\* before it; a row with inode 0 keeps the loop going; the loop is left
\* only with no row (program none) or with a row of nonzero inode, and that
\* inode is then resolved to the program procfs holds for it.
C21_RetryProtocol ==
    PassNow =>
        LET pass == Unwrap(lastPass)
        IN  /\ IsSome(pass.file) => pass.found = FreshFind(pass)
            /\ pc = "lookup" =>
                    IsSome(pass.found) /\ Unwrap(pass.found).inode = 0
            /\ (IsSome(pass.found) /\ Unwrap(pass.found).inode = 0) =>
                    \/ pc = "lookup"
                    \/ pc = "panicked" /\ Unwrap(lastUpdate).ret = "panic"
            /\ (pc = "recv" /\ pass.con.state = "New") =>
                    /\ IsSome(Unwrap(lastEvent).parsed)
                    /\ Unwrap(Unwrap(lastEvent).parsed).program_details
                         = IF IsNone(pass.found) THEN None
                           ELSE ResolvedProgram(pass)

\* the same without the rows whose inode is the largest u32
C21_ButSentinel ==
    PassNow =>
        LET pass == Unwrap(lastPass)
        IN  /\ IsSome(pass.file) => pass.found = FreshFind(pass)
            /\ pc = "lookup" =>
                    IsSome(pass.found) /\ Unwrap(pass.found).inode = 0
            /\ (IsSome(pass.found) /\ Unwrap(pass.found).inode = 0) =>
                    \/ pc = "lookup"
                    \/ pc = "panicked" /\ Unwrap(lastUpdate).ret = "panic"
            /\ (pc = "recv" /\ pass.con.state = "New") =>
                    /\ IsSome(Unwrap(lastEvent).parsed)
                    /\ Unwrap(Unwrap(lastEvent).parsed).program_details
                         = IF IsNone(pass.found)
                              \/ Unwrap(pass.found).inode = U32_MAX THEN None
                           ELSE ResolvedProgram(pass)

\* the uuids Uuid::new_v4() has returned to the parser so far
DrawnUuids == {WireUuid(k) : k \in 1..uuidsDrawn}

\* what the claim allows parse to return for a TCP/UDP event of a state
Emission(state, parsed, drawn) ==
    CASE state = "New" ->
            /\ IsSome(parsed)
            /\ Unwrap(parsed).kind = "Open"
            /\ Unwrap(parsed).uuid \notin drawn
            /\ Unwrap(parsed).agent = AgentUuid
      [] state = "Destroy" ->
            /\ IsSome(parsed)
            /\ Unwrap(parsed).kind = "Close"
            /\ Unwrap(parsed).uuid = None
            /\ Unwrap(parsed).agent = AgentUuid
            /\ DOMAIN Unwrap(parsed)
                 \cap {"username", "uid", "program_details"} = {}
      [] OTHER -> IsNone(parsed)

\* C22: when parse returns for a TCP/UDP event, a New event has given one
\* Open with a uuid never drawn before and the agent uuid, a Destroy event
\* one Close with uuid none, the agent uuid and no user or program field,
\* and an Unknown event no payload.
C22_EmissionByState ==
    [][(pc = "lookup" /\ pc' = "recv") =>
          /\ Unwrap(lastEvent').con = Unwrap(cur)
          /\ Emission(Unwrap(cur).state, Unwrap(lastEvent').parsed,
                      DrawnUuids)]_vars

\* parse has returned the Open of a New event, with the second uuid drawn
C22_Witness ==
    /\ pc = "recv"
    /\ IsSome(lastEvent)
    /\ Unwrap(lastEvent).con.state = "New"
    /\ IsSome(Unwrap(lastEvent).parsed)
    /\ Unwrap(Unwrap(lastEvent).parsed).kind = "Open"
    /\ Unwrap(Unwrap(lastEvent).parsed).uuid = WireUuid(2)
    /\ uuidsDrawn = 2

\* C23: a resolve miss is no failure. When the owner of the inode found is
\* gone or its stat cannot be read, the Open carries program none; and the
\* main loop is never ended by a resolve miss (it ends by a panic only
\* under a refresh of the socket table).
C23_ResolveMiss ==
    /\ pc = "panicked" =>
            IsSome(lastUpdate) /\ Unwrap(lastUpdate).ret = "panic"
    /\ (PassNow /\ pc = "recv" /\ IsNone(Unwrap(lastPass).owner)
            /\ Unwrap(lastPass).con.state = "New") =>
            /\ IsSome(Unwrap(lastEvent).parsed)
            /\ Unwrap(Unwrap(lastEvent).parsed).program_details = None

\* the rows of a file: its lines but the first
FileRows(file) == {Unwrap(file)[i] : i \in 2..Len(Unwrap(file))}

\* the lines whose column 1 or column 2 holds no colon
ColonlessLines ==
    {l \in KnownLines :
        \/ IsNone(split_address(Retain(Split(l, " "))[2]))
        \/ IsNone(split_address(Retain(Split(l, " "))[3]))}

\* the update call made last has returned Ok
Refreshed == IsSome(lastUpdate) /\ Unwrap(lastUpdate).ret = "Ok"

\* C24: after a refresh the socket table holds no entry, under any key,
\* that comes from a row whose local or remote address column has no colon.
C24_ColonlessRowSkipped ==
    Refreshed =>
        \A l \in FileRows(Unwrap(lastUpdate).file) \cap ColonlessLines :
            \A k \in DOMAIN chomperMap[Unwrap(lastUpdate).protocol] :
                chomperMap[Unwrap(lastUpdate).protocol][k]
                    # Unwrap(ParsedLines[l].value)

\* the rows update has parsed from a file, in file order
ParsedRows(file) ==
    [i \in 1..(Len(Unwrap(file)) - 1) |->
        Unwrap(ParseLine(Unwrap(file)[i + 1]).value)]

LocalKey(row) == Key(row.local_address, row.local_port)
RemoteKey(row) == Key(row.remote_address, row.remote_port)
HasEndpoint(row, key) == key = LocalKey(row) \/ key = RemoteKey(row)

\* the last row in file order that has the endpoint, if any
LastWith(rows, key) ==
    IF \E i \in DOMAIN rows : HasEndpoint(rows[i], key)
    THEN Some(rows[CHOOSE i \in DOMAIN rows :
                     /\ HasEndpoint(rows[i], key)
                     /\ \A j \in DOMAIN rows :
                            HasEndpoint(rows[j], key) => j <= i])
    ELSE None

\* endpoints to look up: those of every known row, and one of no row
ProbeKeys ==
    {Key(<<10, 0, 0, 1>>, 1)}
    \cup UNION {{LocalKey(Unwrap(ParsedLines[l].value)),
                 RemoteKey(Unwrap(ParsedLines[l].value))} :
                l \in {k \in KnownLines : ~ParsedLines[k].panicked}}

\* the table after the refresh made last
TableNow == chomperMap[Unwrap(lastUpdate).protocol]

\* C25 (as amended): after each refresh the table is rebuilt from the file
\* alone, and find(ip, port) returns the last row in file order that has
\* (ip, port) as its local or remote endpoint, or nothing if no row has
\* it; so a row is reachable under an endpoint of its only if no later row
\* has that endpoint.
C25_FindLastRow ==
    Refreshed =>
        \A key \in ProbeKeys \cup DOMAIN TableNow :
            find(TableNow, key[1], key[2])
                = LastWith(ParsedRows(Unwrap(lastUpdate).file), key)

\* C25 as stated: moreover every parsed row is reachable under both its
\* local and its remote endpoint.
C25_DualKeyed ==
    Refreshed =>
        /\ \A key \in ProbeKeys \cup DOMAIN TableNow :
              find(TableNow, key[1], key[2])
                  = LastWith(ParsedRows(Unwrap(lastUpdate).file), key)
        /\ \A i \in DOMAIN ParsedRows(Unwrap(lastUpdate).file) :
              LET row == ParsedRows(Unwrap(lastUpdate).file)[i]
              IN  /\ find(TableNow, row.local_address, row.local_port)
                       = Some(row)
                  /\ find(TableNow, row.remote_address, row.remote_port)
                       = Some(row)

\* a refresh has read two rows with one remote endpoint, and find gives the
\* later row for it
C25_Witness ==
    /\ Refreshed
    /\ Len(Unwrap(Unwrap(lastUpdate).file)) = 3
    /\ LET rows == ParsedRows(Unwrap(lastUpdate).file)
       IN  /\ rows[1] # rows[2]
           /\ RemoteKey(rows[1]) = RemoteKey(rows[2])
           /\ LocalKey(rows[1]) # LocalKey(rows[2])
           /\ find(TableNow, rows[1].remote_address, rows[1].remote_port)
                = Some(rows[2])
           /\ find(TableNow, rows[1].local_address, rows[1].local_port)
                = Some(rows[1])

\* the next state ends a loop iteration whose payload passed the filter
PassedStep ==
    /\ pc = "lookup"
    /\ pc' = "recv"
    /\ IsSome(Unwrap(lastEvent').parsed)
    /\ ~Unwrap(lastEvent').dropped

\* one call per configured sink, in configuration order, of the method that
\* goes with the payload's kind, each with the serialized record
OneCallEach(payload, record) ==
    [i \in 1..NumSinks |->
        [sink |-> i,
         method |-> IF payload.kind = "Open" THEN "open" ELSE "close",
         message |-> record]]

\* C26: an iteration whose payload passes the filter makes exactly one call
\* per configured sink, in configuration order, process_open_connection for
\* an Open and process_close_connection for a Close, each with the record
\* serialized after correlation; every other step of the pipeline (a
\* payload dropped by the parser or by the filter) makes no call.
C26_FanOut ==
    [][IF PassedStep
       THEN calls' = calls \o OneCallEach(Unwrap(Unwrap(lastEvent').parsed),
                                          ToJson(Unwrap(lastTransform').output))
       ELSE calls' = calls]_vars

\* an Open and then a Close have gone out to every sink, and the event
\* handled last has been dropped (by the parser or by the filter)
C26_Witness ==
    /\ Len(calls) = 2 * NumSinks
    /\ \A i \in 1..NumSinks : calls[i].method = "open" /\ calls[i].sink = i
    /\ \A i \in 1..NumSinks :
          calls[NumSinks + i].method = "close" /\ calls[NumSinks + i].sink = i
    /\ pc = "recv"
    /\ received = 3
    /\ rx = <<>>
    /\ IsNone(Unwrap(lastEvent).parsed) \/ Unwrap(lastEvent).dropped

C28_OnlineFirst ==
    /\ srvPc = "new" => (posts = <<>> /\ srvTimer = None /\ srvWorker = "none")
    /\ srvPc # "new" =>
          /\ posts # <<>>
          /\ posts[1].by = "new"
          /\ posts[1].url = open_connection_url
          /\ \A i \in 2..Len(posts) : posts[i].by # "new"
          /\ srvPc = "failed" <=> ~posts[1].ok
    /\ srvPc = "failed" =>
          (srvTimer = None /\ srvWorker = "none" /\ Len(posts) = 1)
    /\ (srvTimer # None \/ srvWorker # "none") => (posts # <<>> /\ posts[1].ok)

\* Server::new was given a uuid and its online POST was answered 500
C28_Witness ==
    /\ srvPc = "failed"
    /\ posts = <<Post("new", open_connection_url, "online", "500")>>

\* the requests the worker has made, in order
WorkerPosts == SelectSeq(posts, LAMBDA p : p.by = "worker")

\* the messages that entered the worker's channel, in order
Queued == SelectSeq(srvSent, LAMBDA m : m.queued)

\* C29: the worker's requests are, one for one and in order, the messages
\* that were queued: to the open URL exactly for those queued by
\* process_open_connection, to the close URL exactly for those queued by
\* process_close_connection, with the message as body; while the worker
\* lives, what it has not posted is still queued.
C29_OpenCloseUrl ==
    /\ Len(WorkerPosts) <= Len(Queued)
    /\ \A i \in 1..Len(WorkerPosts) :
          /\ WorkerPosts[i].url = open_url <=> Queued[i].type = "Open"
          /\ WorkerPosts[i].url = close_url <=> Queued[i].type = "Close"
          /\ WorkerPosts[i].body = Queued[i].text
    /\ srvWorker = "up" =>
          /\ Len(WorkerPosts) + Len(srvq) = Len(Queued)
          /\ \A i \in 1..Len(srvq) :
                /\ srvq[i].type = Queued[Len(WorkerPosts) + i].type
                /\ srvq[i].text = Queued[Len(WorkerPosts) + i].text

\* a Close, an Open and a Close were queued and posted in that order, the
\* second post failing
C29_Witness ==
    /\ Len(WorkerPosts) = 3
    /\ WorkerPosts[1].url = close_url
    /\ WorkerPosts[2].url = open_url
    /\ ~WorkerPosts[2].ok
    /\ WorkerPosts[3].url = close_url
    /\ WorkerPosts[1].body # WorkerPosts[3].body

\* the request made in this step, if one was made
Posted == IF Len(posts') = Len(posts) + 1 THEN Some(posts'[Len(posts')]) ELSE None

\* C30: a step in which an interface report fails leaves the worker, its
\* queue and the schedule as they were; a step in which a payload POST
\* fails, or in which the worker ends, leaves the schedule as it was.
C30_Independent ==
    [][/\ (Posted # None /\ Unwrap(Posted).by = "timer" /\ ~Unwrap(Posted).ok) =>
             (srvWorker' = srvWorker /\ srvq' = srvq /\ srvTimer' = srvTimer
              /\ srvTimer' # None)
       /\ (Posted # None /\ Unwrap(Posted).by = "worker" /\ ~Unwrap(Posted).ok) =>
             (srvTimer' = srvTimer /\ srvWorker' = "up")
       /\ (srvWorker = "up" /\ srvWorker' # "up") => srvTimer' = srvTimer]_vars

\* a report failed and a payload was posted after it; the worker has ended
\* with a message queued (a later message found no Receiver), and the
\* reports go on
C30_Witness ==
    /\ Len(posts) = 4
    /\ posts[2].by = "timer"
    /\ ~posts[2].ok
    /\ posts[3].by = "worker"
    /\ posts[3].ok
    /\ posts[4].by = "timer"
    /\ srvWorker = "dead"
    /\ Len(srvSent) = 3
    /\ ~srvSent[3].queued

\* the payload State::transform was given and the one it returned
LT == Unwrap(lastTransform')

\* C31: every call of State::transform returns one payload of the kind it
\* was given: an Open equal to its input, a Close equal to its input in
\* every field but, at most, uuid.
C31_OnlyUuidChanges ==
    [][lastTransform' # lastTransform =>
          /\ LT.output.kind = LT.input.kind
          /\ LT.input.kind = "Open" => LT.output = LT.input
          /\ LT.input.kind = "Close" =>
                [LT.output EXCEPT !.uuid = LT.input.uuid] = LT.input]_vars

\* a Close has come out with a uuid it did not come in with
C31_Witness ==
    /\ IsSome(lastTransform)
    /\ Unwrap(lastTransform).input.kind = "Close"
    /\ Unwrap(lastTransform).input.uuid = None
    /\ Unwrap(lastTransform).output.uuid # None
    /\ Unwrap(lastTransform).output.hash = Unwrap(lastTransform).input.hash

\* C32: the map holds hash H exactly when an Open with H was transformed and
\* no Close with H since the most recent of them, and maps H to the uuid of
\* that most recent Open.
C32_MapInvariant ==
    /\ DOMAIN connections \subseteq TestHashes
    /\ \A h \in TestHashes :
          /\ h \in DOMAIN connections <=> IsSome(awaiting[h])
          /\ h \in DOMAIN connections => connections[h] = Unwrap(awaiting[h])
          /\ h \in DOMAIN connections => connections[h] \in openUuids[h]

\* one hash was opened twice and is mapped to a uuid, another was opened
\* and closed and is not in the map
C32_Witness ==
    \E h, g \in TestHashes :
        /\ h # g
        /\ Cardinality(openUuids[h]) = 2
        /\ h \in DOMAIN connections
        /\ openUuids[g] # {}
        /\ g \notin DOMAIN connections

\* the three options of FiltersConfig are off
NoOption ==
    /\ ~config.non_process_connections
    /\ ~config.dns_requests
    /\ ~config.notrust_track_connections

\* C33: the dropped-hash set holds exactly the hashes of which an Open was
\* dropped with no Close applied since the most recent dropped Open; with
\* the three options off the set is empty and no call returns true.
C33_FilterMemory ==
    /\ filtered = pending
    /\ NoOption => (filtered = {} /\ (ApplyDone => ~LA.ret))

\* a hash is remembered although an Open with it was let through after the
\* dropped one, and another hash was dropped, closed and forgotten
C33_Witness ==
    /\ AppliedOpen
    /\ ~LA.ret
    /\ LA.wasPending
    /\ LA.payload.hash \in filtered
    /\ \E g \in TestHashes : g \in closedDrop /\ g \notin filtered

\* the loop iteration that ends in this step, and the payload it parsed
EndsIteration == pc = "lookup" /\ pc' = "recv" /\ lastEvent' # None
Ended == Unwrap(lastEvent')

\* C34: when the parser produces a Close with hash H while an Open with hash
\* H that passed the filter and went to the sinks with uuid U has had no
\* Close since, that Close passes the filter too and goes to the sinks with
\* uuid U.
C34_ClosePaired ==
    [][(/\ EndsIteration
        /\ IsSome(Ended.parsed)
        /\ Unwrap(Ended.parsed).kind = "Close"
        /\ IsSome(awaiting[Unwrap(Ended.parsed).hash])) =>
       (/\ ~Ended.dropped
        /\ lastTransform' # None
        /\ Unwrap(lastTransform').output.kind = "Close"
        /\ Unwrap(lastTransform').output.uuid
              = awaiting[Unwrap(Ended.parsed).hash]
        /\ offered' = Offer(offered, Unwrap(lastTransform').output))]_vars

\* C35: in every reachable state of the pipeline no hash is both in the
\* filter's dropped-hash set and a key of the correlation map.
C35_Disjoint == filtered \cap DOMAIN connections = {}

\* C36: a loop iteration whose payload the filter drops leaves the
\* correlator alone: no transform call is made, the map is as it was, and
\* nothing is offered to a sink.
C36_DroppedNotCorrelated ==
    [][(EndsIteration /\ Ended.dropped) =>
       (/\ connections' = connections
        /\ lastTransform' = lastTransform
        /\ openUuids' = openUuids
        /\ awaiting' = awaiting
        /\ offered' = offered)]_vars

\* a Close has been dropped while the map holds an entry for its hash: a
\* transform call would have removed it
C36_Witness ==
    /\ IsSome(lastEvent)
    /\ Unwrap(lastEvent).dropped
    /\ Unwrap(Unwrap(lastEvent).parsed).kind = "Close"
    /\ Unwrap(Unwrap(lastEvent).parsed).hash \in DOMAIN connections

\* the name the passwd database has for a uid, or the empty string
NameOf(u) == IF IsSome(GetUserByUid(u)) THEN Unwrap(GetUserByUid(u)) ELSE ""

\* C37: an Open carries the uid and the user name of the row with nonzero
\* inode that ended the retry loop; when the loop ended on no row, it
\* carries no program, uid 0 and the empty user name.
C37_UidOfFinalRow ==
    (PassNow /\ pc = "recv" /\ Unwrap(lastPass).con.state = "New") =>
        LET pass == Unwrap(lastPass)
            open == Unwrap(Unwrap(lastEvent).parsed)
        IN  /\ IsSome(pass.found) =>
                    /\ Unwrap(pass.found).inode # 0
                    /\ open.uid = Unwrap(pass.found).uid
                    /\ open.username = NameOf(Unwrap(pass.found).uid)
            /\ IsNone(pass.found) =>
                    /\ open.program_details = None
                    /\ open.uid = 0
                    /\ open.username = ""

\* the number of events the main loop has taken from the channel and
\* finished (dropped, or offered to every sink)
Finished == received - Len(rx) - (IF pc = "recv" THEN 0 ELSE 1)

\* C38: every event the ingester has put into the channel is eventually
\* finished by the main loop, and the ingester can always put the next one.
C38_Progress ==
    /\ \A n \in 1..MaxEvents : (received >= n) ~> (Finished >= n)
    /\ [](received < MaxEvents => ENABLED (\E con \in ParserEvents : Receive(con)))

IsSuffix(s, t) == \E k \in 0..Len(t) : s = SubSeq(t, k + 1, Len(t))

====
